---------------------------- MODULE Spec2Model ----------------------------
(***************************************************************************)
(* A model of prost-canonical-serde: the canonical protobuf JSON codec     *)
(* (scalar codecs, well-known types, generic adapters) and the message     *)
(* bindings that the derive macros generate.                               *)
(*                                                                         *)
(* Representation.                                                         *)
(*   - Text is a sequence of one-character strings.                        *)
(*   - i32/u32 values are integers.  i64/u64 values do not fit the model   *)
(*     checker's integers, so they are "wide" integers: a sign and five    *)
(*     base-10000 limbs, most significant first (20 decimal digits).       *)
(*   - Option<T> is a sequence of length 0 (None) or 1 (Some).             *)
(*   - A Result is a record with an ok flag and the value.                 *)
(***************************************************************************)
EXTENDS Integers, Sequences, FiniteSets, TLC

(***************************************************************************)
(* Generic sequence helpers.                                               *)
(***************************************************************************)
None == <<>>

Some(v) == <<v>>

IsSome(o) == Len(o) > 0

Unwrap(o) == o[1]

Last(s) == s[Len(s)]

Front(s) == SubSeq(s, 1, Len(s) - 1)

Contains(s, c) == \E i \in 1..Len(s) : s[i] = c

RECURSIVE Concat(_)
Concat(ss) == IF ss = <<>> THEN <<>> ELSE Head(ss) \o Concat(Tail(ss))

Min(a, b) == IF a <= b THEN a ELSE b

Abs(n) == IF n < 0 THEN -n ELSE n

(***************************************************************************)
(* Characters.                                                             *)
(***************************************************************************)
DigitChars == <<"0", "1", "2", "3", "4", "5", "6", "7", "8", "9">>

IsDigit(c) == \E i \in 1..10 : DigitChars[i] = c

DigitVal(c) == (CHOOSE i \in 1..10 : DigitChars[i] = c) - 1

DigitChar(d) == DigitChars[d + 1]

AllDigits(s) == \A i \in 1..Len(s) : IsDigit(s[i])

\* The decimal digits of a natural number, most significant first ("0" for 0):
\* what Rust's Display prints for an unsigned integer.
RECURSIVE NatDigits(_)
NatDigits(n) ==
    IF n < 10 THEN <<DigitChar(n)>>
    ELSE NatDigits(n \div 10) \o <<DigitChar(n % 10)>>

\* {:0w}: the digits of n, left-padded with zeros to at least w characters.
RECURSIVE PadDigits(_, _)
PadDigits(n, w) ==
    IF w <= 1 THEN NatDigits(n)
    ELSE IF Len(NatDigits(n)) >= w THEN NatDigits(n)
    ELSE <<"0">> \o PadDigits(n, w - 1)

\* The value of a string of decimal digits (Horner), for strings short enough
\* to fit an integer of the model (at most 9 digits).
RECURSIVE DigitsVal(_)
DigitsVal(s) ==
    IF s = <<>> THEN 0 ELSE DigitsVal(Front(s)) * 10 + DigitVal(Last(s))

RECURSIVE Pow10(_)
Pow10(k) == IF k = 0 THEN 1 ELSE 10 * Pow10(k - 1)

\* s with its leading "0" characters removed (all of them).
RECURSIVE StripLeadingZeros(_)
StripLeadingZeros(s) ==
    IF s # <<>> /\ Head(s) = "0" THEN StripLeadingZeros(Tail(s)) ELSE s

(***************************************************************************)
(* Wide integers: the 64-bit domains i64 and u64.                          *)
(***************************************************************************)
\* The limb base and the number of limbs of the representation (20 digits).
Base == 100 * 100

NLimbs == 4 + 1

ZeroMag == [i \in 1..NLimbs |-> 0]

Wide(neg, mag) == [neg |-> neg, mag |-> mag]

WZero == Wide(FALSE, ZeroMag)

WIsZero(a) == a.mag = ZeroMag

\* The wide integer of a model integer (-2^31 <= n < 2^31); -2^31 has no
\* absolute value among the model's integers and is written out.
WOf(n) ==
    IF n < -2147483647 THEN Wide(TRUE, <<0, 0, 21, 4748, 3648>>)
    ELSE LET m == Abs(n)
         IN  Wide(n < 0,
                  <<0, 0, m \div (Base * Base), (m \div Base) % Base, m % Base>>)

\* Comparison of magnitudes: -1, 0 or 1.
RECURSIVE MagCmpFrom(_, _, _)
MagCmpFrom(a, b, i) ==
    IF i > NLimbs THEN 0
    ELSE IF a[i] < b[i] THEN -1
    ELSE IF a[i] > b[i] THEN 1
    ELSE MagCmpFrom(a, b, i + 1)

MagCmp(a, b) == MagCmpFrom(a, b, 1)

WCmp(a, b) ==
    IF a.neg /\ ~b.neg THEN -1
    ELSE IF ~a.neg /\ b.neg THEN 1
    ELSE IF a.neg THEN MagCmp(b.mag, a.mag)
    ELSE MagCmp(a.mag, b.mag)

WLt(a, b) == WCmp(a, b) < 0

WLe(a, b) == WCmp(a, b) <= 0

WNeg(a) == IF WIsZero(a) THEN a ELSE Wide(~a.neg, a.mag)

WAbs(a) == Wide(FALSE, a.mag)

\* Magnitude addition and subtraction (a >= b for subtraction), limb by limb
\* from the least significant limb, with carry c.
RECURSIVE MagAddFrom(_, _, _, _)
MagAddFrom(a, b, i, c) ==
    IF i = 0 THEN <<>>
    ELSE LET t == a[i] + b[i] + c
         IN  MagAddFrom(a, b, i - 1, t \div Base) \o <<t % Base>>

MagAdd(a, b) == MagAddFrom(a, b, NLimbs, 0)

RECURSIVE MagSubFrom(_, _, _, _)
MagSubFrom(a, b, i, c) ==
    IF i = 0 THEN <<>>
    ELSE LET t == a[i] - b[i] - c
         IN  IF t < 0
             THEN MagSubFrom(a, b, i - 1, 1) \o <<t + Base>>
             ELSE MagSubFrom(a, b, i - 1, 0) \o <<t>>

MagSub(a, b) == MagSubFrom(a, b, NLimbs, 0)

WNorm(a) == IF a.mag = ZeroMag THEN WZero ELSE a

WAdd(a, b) ==
    IF a.neg = b.neg THEN Wide(a.neg, MagAdd(a.mag, b.mag))
    ELSE IF MagCmp(a.mag, b.mag) >= 0
         THEN WNorm(Wide(a.neg, MagSub(a.mag, b.mag)))
         ELSE WNorm(Wide(b.neg, MagSub(b.mag, a.mag)))

WSub(a, b) == WAdd(a, WNeg(b))

\* Magnitude times a small factor k (k * Base < 2^31).
RECURSIVE MagMulFrom(_, _, _, _)
MagMulFrom(a, k, i, c) ==
    IF i = 0 THEN <<>>
    ELSE LET t == a[i] * k + c
         IN  MagMulFrom(a, k, i - 1, t \div Base) \o <<t % Base>>

WMulSmall(a, k) == WNorm(Wide(a.neg, MagMulFrom(a.mag, k, NLimbs, 0)))

\* Magnitude divided by a small divisor d (d * Base < 2^31): long division
\* from the most significant limb; the result is <<quotient limbs, remainder>>.
RECURSIVE MagDivFrom(_, _, _, _)
MagDivFrom(a, d, i, r) ==
    IF i > NLimbs THEN <<<<>>, r>>
    ELSE LET t == r * Base + a[i]
             rest == MagDivFrom(a, d, i + 1, t % d)
         IN  <<<<t \div d>> \o rest[1], rest[2]>>

\* Floor division and non-negative remainder of a wide integer by d > 0
\* (what div_euclid / rem_euclid compute).
WDivFloor(a, d) ==
    LET qr == MagDivFrom(a.mag, d, 1, 0)
        q == Wide(FALSE, qr[1])
    IN  IF ~a.neg THEN q
        ELSE IF qr[2] = 0 THEN WNeg(q)
        ELSE WNeg(WAdd(q, WOf(1)))

WModFloor(a, d) ==
    LET qr == MagDivFrom(a.mag, d, 1, 0)
    IN  IF ~a.neg \/ qr[2] = 0 THEN qr[2] ELSE d - qr[2]

\* The model integer of a wide integer that fits one (|a| < 2^31).
WFitsSmall(a) == a.mag[1] = 0 /\ a.mag[2] = 0 /\ a.mag[3] < 20

WSmall(a) ==
    LET m == (a.mag[3] * Base + a.mag[4]) * Base + a.mag[5]
    IN  IF a.neg THEN -m ELSE m

\* The decimal digits of a magnitude: the first non-zero limb unpadded, the
\* limbs after it padded to four digits.
RECURSIVE MagDigitsFrom(_, _, _)
MagDigitsFrom(m, i, started) ==
    IF i > NLimbs THEN IF started THEN <<>> ELSE <<"0">>
    ELSE IF ~started /\ m[i] = 0 THEN MagDigitsFrom(m, i + 1, FALSE)
    ELSE (IF started THEN PadDigits(m[i], 4) ELSE NatDigits(m[i]))
         \o MagDigitsFrom(m, i + 1, TRUE)

\* i64::to_string / u64::to_string: base 10, "-" for a negative value.
WToString(a) ==
    (IF a.neg THEN <<"-">> ELSE <<>>) \o MagDigitsFrom(a.mag, 1, FALSE)

\* The magnitude of a string of at most 20 decimal digits.
MagOfDigits(s) ==
    LET p == [i \in 1..(4 * NLimbs - Len(s)) |-> "0"] \o s
    IN  [i \in 1..NLimbs |-> DigitsVal(SubSeq(p, 4 * i - 3, 4 * i))]

\* The limits of the 64-bit and 32-bit integer types.
I64_MAX == Wide(FALSE, <<922, 3372, 368, 5477, 5807>>)

I64_MIN == Wide(TRUE, <<922, 3372, 368, 5477, 5808>>)

U64_MAX == Wide(FALSE, <<1844, 6744, 737, 955, 1615>>)

I32_MAX == WOf(2147483647)

I32_MIN == WOf(-2147483647 - 1)

U32_MAX == Wide(FALSE, <<0, 0, 42, 9496, 7295>>)

\* The wide integer of a digit string with at most 9 digits.
WOfDigits(s) == Wide(FALSE, MagOfDigits(s))

(***************************************************************************)
(* Results: Ok(value) or Err(message), as Result<T, CanonicalError> and    *)
(* the serde error types.                                                  *)
(***************************************************************************)
Ok(v) == [ok |-> TRUE, v |-> v, e |-> ""]

Err(e) == [ok |-> FALSE, v |-> <<>>, e |-> e]

\* Result::map_err with a constant message.
MapErr(r, e) == IF r.ok THEN r ELSE Err(e)

\* `if let Ok(v) = first { return Ok(v) }`, then the rest of the function.
OrElse(first, rest) == IF first.ok THEN first ELSE rest

\* A value within [min, max], or the error: i32::try_from / u32::try_from /
\* i64::try_from of a visited integer, and the range checks of the casts.
TryFrom(w, min, max, msg) ==
    IF WLt(w, min) \/ WLt(max, w) THEN Err(msg) ELSE Ok(w)

\* The first error of a sequence of results, or Ok of the concatenation of
\* the sequences they hold.
Prepend(vs, rest) == IF rest.ok THEN Ok(vs \o rest.v) ELSE rest

RECURSIVE Collect(_)
Collect(rs) ==
    IF rs = <<>> THEN Ok(<<>>)
    ELSE IF ~Head(rs).ok THEN Head(rs)
    ELSE Prepend(Head(rs).v, Collect(Tail(rs)))

\* A result holding a sequence of one element, from a result holding the element.
One(r) == IF r.ok THEN Ok(<<r.v>>) ELSE r

(***************************************************************************)
(* Floating point.  A float is NaN, an infinity or a finite value; a       *)
(* finite value is named by its shortest round-trip decimal                *)
(* (-1)^neg * mant * 10^exp with mant not divisible by 10 (mant = 0 has    *)
(* exp = 0).  Distinct floats have distinct shortest decimals, and every   *)
(* decimal of at most 15 (f64) or 6 (f32) significant digits names the     *)
(* float it parses to, so within that domain printing and parsing act on   *)
(* the decimal itself.                                                     *)
(***************************************************************************)
Float(cls, neg, mant, exp) == [cls |-> cls, neg |-> neg, mant |-> mant, exp |-> exp]

FNaN == Float("nan", FALSE, 0, 0)

FInf == Float("inf", FALSE, 0, 0)

FNegInf == Float("inf", TRUE, 0, 0)

FZero == Float("finite", FALSE, 0, 0)

FNegZero == Float("finite", TRUE, 0, 0)

RECURSIVE FNormal(_, _, _)
FNormal(neg, mant, exp) ==
    IF mant = 0 THEN Float("finite", neg, 0, 0)
    ELSE IF mant % 10 = 0 THEN FNormal(neg, mant \div 10, exp + 1)
    ELSE Float("finite", neg, mant, exp)

\* A finite float from a (small) decimal.
FDec(mant, exp) == FNormal(mant < 0, Abs(mant), exp)

is_finite(x) == x.cls = "finite"

is_nan(x) == x.cls = "nan"

is_sign_positive(x) == ~x.neg

\* IEEE equality, as PartialEq for f32/f64: NaN differs from everything,
\* -0.0 equals 0.0.
FEq(x, y) ==
    /\ x.cls # "nan"
    /\ y.cls # "nan"
    /\ \/ x = y
       \/ x.cls = "finite" /\ y.cls = "finite" /\ x.mant = 0 /\ y.mant = 0

Zeros(k) == [i \in 1..k |-> "0"]

\* Display for a finite f32/f64: plain decimal notation, no exponent, no
\* trailing ".0", "-" for a negative value (and for -0.0).
FloatDisplay(x) ==
    LET d == NatDigits(x.mant)
        k == -x.exp
        body ==
            IF x.exp >= 0 THEN (IF x.mant = 0 THEN d ELSE d \o Zeros(x.exp))
            ELSE IF Len(d) > k
                 THEN SubSeq(d, 1, Len(d) - k) \o <<".">>
                      \o SubSeq(d, Len(d) - k + 1, Len(d))
                 ELSE <<"0", ".">> \o Zeros(k - Len(d)) \o d
    IN  (IF x.neg THEN <<"-">> ELSE <<>>) \o body

\* The number of decimal digits before the decimal point of a finite non-zero
\* float (its order of magnitude plus one).
FOrder(x) == Len(NatDigits(x.mant)) + x.exp

\* The first nine significant digits of a finite float, as an integer.
FLead9(x) ==
    LET d == NatDigits(x.mant)
    IN  IF Len(d) >= 9 THEN DigitsVal(SubSeq(d, 1, 9))
        ELSE x.mant * Pow10(9 - Len(d))

\* |x| > bound, for a bound of `order` digits before the point whose first nine
\* significant digits are lead9 and which is followed by further non-zero
\* digits (so no float of the decimal domain equals it).
FMagAbove(x, order, lead9) ==
    /\ x.mant # 0
    /\ \/ FOrder(x) > order
       \/ FOrder(x) = order /\ FLead9(x) > lead9

\* f64::MAX = 1.7976931348623157e308 and f32::MAX = 3.4028234663852886e38.
AboveF64Max(x) == FMagAbove(x, 309, 179769313)

AboveF32Max(x) == FMagAbove(x, 39, 340282346)

\* The integer value of an integral finite float of at most 20 digits.
RECURSIVE WTimesPow10(_, _)
WTimesPow10(w, k) == IF k = 0 THEN w ELSE WTimesPow10(WMulSmall(w, 10), k - 1)

FloatToWide(x) ==
    IF x.mant = 0 THEN WZero
    ELSE LET m == WTimesPow10(WOf(x.mant), x.exp)
         IN  Wide(x.neg, m.mag)

\* The number of "0" characters that end s, its first character not counted.
MagTrailingZeros(s) ==
    IF s = <<>> THEN 0
    ELSE Len(s) - (CHOOSE i \in 1..Len(s) :
                      (i = 1 \/ s[i] # "0") /\ \A j \in (i + 1)..Len(s) : s[j] = "0")

\* The float of a wide integer of at most 9 significant digits (`as f64`).
WideToFloat(w) ==
    LET d == MagDigitsFrom(w.mag, 1, FALSE)
        z == MagTrailingZeros(d)
    IN  IF WIsZero(w) THEN FZero
        ELSE Float("finite", w.neg, DigitsVal(SubSeq(d, 1, Len(d) - z)), z)

(***************************************************************************)
(* ASCII letters.                                                          *)
(***************************************************************************)
LowerChars ==
    <<"a", "b", "c", "d", "e", "f", "g", "h", "i", "j", "k", "l", "m",
      "n", "o", "p", "q", "r", "s", "t", "u", "v", "w", "x", "y", "z">>

UpperChars ==
    <<"A", "B", "C", "D", "E", "F", "G", "H", "I", "J", "K", "L", "M",
      "N", "O", "P", "Q", "R", "S", "T", "U", "V", "W", "X", "Y", "Z">>

is_ascii_uppercase(c) == \E i \in 1..26 : UpperChars[i] = c

is_ascii_lowercase(c) == \E i \in 1..26 : LowerChars[i] = c

to_ascii_lowercase(c) ==
    IF is_ascii_uppercase(c)
    THEN LowerChars[CHOOSE i \in 1..26 : UpperChars[i] = c]
    ELSE c

to_ascii_uppercase(c) ==
    IF is_ascii_lowercase(c)
    THEN UpperChars[CHOOSE i \in 1..26 : LowerChars[i] = c]
    ELSE c

LowerStr(s) == [i \in 1..Len(s) |-> to_ascii_lowercase(s[i])]

\* The index of the first occurrence of a character of set cs in s, or 0.
FirstIndexOf(s, cs) ==
    IF \E i \in 1..Len(s) : s[i] \in cs
    THEN CHOOSE i \in 1..Len(s) :
            s[i] \in cs /\ \A j \in 1..(i - 1) : s[j] \notin cs
    ELSE 0

(***************************************************************************)
(* str::parse for the integer types: an optional sign ("+", and "-" for a  *)
(* signed type), then one or more decimal digits, within [min, max].       *)
(***************************************************************************)
ParseInt(s, signed, min, max) ==
    LET hasSign == s # <<>> /\ (s[1] = "+" \/ (signed /\ s[1] = "-"))
        neg == hasSign /\ s[1] = "-"
        digits == IF hasSign THEN Tail(s) ELSE s
        sig == StripLeadingZeros(digits)
        w == WNorm(Wide(neg, MagOfDigits(sig)))
    IN  IF digits = <<>> \/ ~AllDigits(digits) THEN Err("invalid digit")
        ELSE IF Len(sig) > 4 * NLimbs THEN Err("number too large")
        ELSE IF WLt(w, min) \/ WLt(max, w) THEN Err("number too large")
        ELSE Ok(w)

ParseI32(s) == ParseInt(s, TRUE, I32_MIN, I32_MAX)

ParseU32(s) == ParseInt(s, FALSE, WZero, U32_MAX)

ParseI64(s) == ParseInt(s, TRUE, I64_MIN, I64_MAX)

ParseU64(s) == ParseInt(s, FALSE, WZero, U64_MAX)

(***************************************************************************)
(* str::parse::<f64>: Sign? ('inf' | 'infinity' | 'nan' | Number), with    *)
(* Number = (Digit+ | Digit+ '.' Digit* | Digit* '.' Digit+) Exp? and      *)
(* Exp = 'e' Sign? Digit+, letters in either case.  A value beyond the     *)
(* largest finite f64 parses to an infinity.  The decimal domain of the    *)
(* model holds mantissas of at most 9 significant digits.                  *)
(***************************************************************************)
ParseExp(s) ==
    LET hasSign == s # <<>> /\ s[1] \in {"+", "-"}
        digits == IF hasSign THEN Tail(s) ELSE s
        sig == StripLeadingZeros(digits)
        v == IF Len(sig) > 4 THEN 9999 ELSE DigitsVal(sig)
    IN  IF digits = <<>> \/ ~AllDigits(digits) THEN Err("invalid float literal")
        ELSE Ok(IF hasSign /\ s[1] = "-" THEN -v ELSE v)

\* The two parts of s around its i-th character (i = 0: no such character).
SplitAt(s, i) ==
    IF i = 0 THEN [found |-> FALSE, before |-> s, after |-> <<>>]
    ELSE [found |-> TRUE, before |-> SubSeq(s, 1, i - 1),
          after |-> SubSeq(s, i + 1, Len(s))]

\* The float nearest to (-1)^neg * sig * 10^exp, sig a digit string with z
\* trailing zeros: below the smallest subnormal it is a zero, above the
\* largest finite value an infinity.
NearestF64(neg, x) ==
    IF x.mant # 0 /\ FOrder(x) < -323 THEN Ok(Float("finite", neg, 0, 0))
    ELSE IF AboveF64Max(x) THEN Ok(Float("inf", neg, 0, 0))
    ELSE Ok(x)

DecimalValue(neg, sig, exp, z) ==
    NearestF64(neg, FNormal(neg, DigitsVal(SubSeq(sig, 1, Len(sig) - z)), exp + z))

ParseDecimal(neg, ip, fp, e) ==
    IF (ip = <<>> /\ fp = <<>>) \/ ~AllDigits(ip) \/ ~AllDigits(fp)
    THEN Err("invalid float literal")
    ELSE IF ~e.ok THEN e
    ELSE DecimalValue(neg, StripLeadingZeros(ip \o fp), e.v - Len(fp),
                      MagTrailingZeros(StripLeadingZeros(ip \o fp)))

ParseMantissa(neg, m, e) ==
    ParseDecimal(neg, m.before, m.after, e)

ParseNumberParts(neg, me) ==
    ParseMantissa(neg, SplitAt(me.before, FirstIndexOf(me.before, {"."})),
                  IF me.found THEN ParseExp(me.after) ELSE Ok(0))

ParseNumber(neg, s) == ParseNumberParts(neg, SplitAt(s, FirstIndexOf(s, {"e", "E"})))

ParseF64(s) ==
    LET hasSign == s # <<>> /\ s[1] \in {"+", "-"}
        neg == hasSign /\ s[1] = "-"
        rest == IF hasSign THEN Tail(s) ELSE s
        low == LowerStr(rest)
    IN  IF low = <<"i", "n", "f">> \/ low = <<"i", "n", "f", "i", "n", "i", "t", "y">>
        THEN Ok(Float("inf", neg, 0, 0))
        ELSE IF low = <<"n", "a", "n">> THEN Ok(FNaN)
        ELSE ParseNumber(neg, rest)

(***************************************************************************)
(* canonical/number.rs                                                     *)
(***************************************************************************)
StrNaN == <<"N", "a", "N">>

StrInfinity == <<"I", "n", "f", "i", "n", "i", "t", "y">>

StrNegInfinity == <<"-">> \o StrInfinity

\* The tail of parse_float: the parse error mapped, a non-finite value refused.
finite_parsed(parsed) ==
    IF ~parsed.ok THEN Err("invalid f64 string")
    ELSE IF ~is_finite(parsed.v) THEN Err("float out of range")
    ELSE parsed

parse_float(value) ==
    IF value = StrNaN THEN Ok(FNaN)
    ELSE IF value = StrInfinity THEN Ok(FInf)
    ELSE IF value = StrNegInfinity THEN Ok(FNegInf)
    ELSE finite_parsed(ParseF64(value))

\* value % 1.0 == 0.0 for a finite value.
is_integral(value) ==
    /\ is_finite(value)
    /\ (value.mant = 0 \/ value.exp >= 0)

\* An integral finite float within [min, max], as an integer (the `as` cast
\* after the range checks); a float of more than 20 digits is out of any range.
IntFromF64(value, min, max, invalidMsg, rangeMsg) ==
    IF ~is_integral(value) THEN Err(invalidMsg)
    ELSE IF value.mant # 0 /\ FOrder(value) > 4 * NLimbs THEN Err(rangeMsg)
    ELSE TryFrom(FloatToWide(value), min, max, rangeMsg)

i32_from_f64(value) ==
    IntFromF64(value, I32_MIN, I32_MAX, "invalid i32", "i32 out of range")

u32_from_f64(value) ==
    IntFromF64(value, WZero, U32_MAX, "invalid u32", "u32 out of range")

MIN_SAFE_I64 == Wide(TRUE, <<0, 9007, 1992, 5474, 992>>)

MAX_SAFE_I64 == Wide(FALSE, <<0, 9007, 1992, 5474, 992>>)

MAX_SAFE_U64 == Wide(FALSE, <<1, 8014, 3985, 948, 1984>>)

MAX_SAFE_I64_F32 == WOf(16777216)

MAX_SAFE_U64_F32 == WOf(16777216)

i64_from_f64(value) ==
    IntFromF64(value, MIN_SAFE_I64, MAX_SAFE_I64, "invalid i64", "i64 out of range")

u64_from_f64(value) ==
    IntFromF64(value, WZero, MAX_SAFE_U64, "invalid u64", "u64 out of range")

\* The float fallback of i32_from_str, on the result of parse_float.
i32_from_parsed(parsed) ==
    IF ~parsed.ok THEN Err("invalid i32 string")
    ELSE IF ~is_integral(parsed.v) THEN Err("invalid i32 string")
    ELSE IntFromF64(parsed.v, I32_MIN, I32_MAX, "invalid i32 string",
                    "i32 out of range")

i32_from_str(value) == OrElse(ParseI32(value), i32_from_parsed(parse_float(value)))

u32_from_str(value) == MapErr(ParseU32(value), "invalid u32 string")

i64_from_str(value) == MapErr(ParseI64(value), "invalid i64 string")

u64_from_str(value) == MapErr(ParseU64(value), "invalid u64 string")

f64_from_i64_exact(value) ==
    IF WLt(value, MIN_SAFE_I64) \/ WLt(MAX_SAFE_I64, value)
    THEN Err("integer out of range for f64")
    ELSE Ok(WideToFloat(value))

f64_from_u64_exact(value) ==
    IF WLt(MAX_SAFE_U64, value) THEN Err("integer out of range for f64")
    ELSE Ok(WideToFloat(value))

\* i64::abs in a release build: the two's-complement absolute value, which
\* for i64::MIN wraps to i64::MIN itself.
I64WrappingAbs(value) == IF value = I64_MIN THEN I64_MIN ELSE WAbs(value)

\* `value as f32`, for the values the range check lets through: an integer
\* of at most 2^24 in magnitude, which an f32 holds exactly, and i64::MIN,
\* -2^63, whose f32 has the shortest decimal -9.223372e18.
AsF32(value) ==
    IF value = I64_MIN THEN Float("finite", TRUE, 9223372, 12) ELSE WideToFloat(value)

\* value.abs() overflows for i64::MIN: without overflow checks (the release
\* profile) it wraps to i64::MIN, as computed here; with overflow checks
\* (the dev profile) it panics, see abs_overflows.
f32_from_i64_exact(value) ==
    IF WLt(MAX_SAFE_I64_F32, I64WrappingAbs(value))
    THEN Err("integer out of range for f32")
    ELSE Ok(AsF32(value))

f32_from_u64_exact(value) ==
    IF WLt(MAX_SAFE_U64_F32, value) THEN Err("integer out of range for f32")
    ELSE Ok(WideToFloat(value))

\* `value as f32` for a finite value within the range of f32: the nearest
\* f32.  A decimal of the model's domain names the f32 nearest to it; below
\* half the smallest subnormal (1.4e-45) the nearest f32 is a zero.
CastF32(value) ==
    IF value.mant # 0 /\ FOrder(value) < -45 THEN Float("finite", value.neg, 0, 0)
    ELSE value

f32_from_f64(value) ==
    IF is_nan(value) THEN Ok(FNaN)
    ELSE IF value.cls = "inf" THEN Ok(IF is_sign_positive(value) THEN FInf ELSE FNegInf)
    ELSE IF AboveF32Max(value) THEN Err("float out of range")
    ELSE Ok(CastF32(value))

\* `f32_from_f64(parse_float(value)?)`
f32_from_parsed(parsed) == IF parsed.ok THEN f32_from_f64(parsed.v) ELSE parsed

(***************************************************************************)
(* JSON values, as serde_json hands them to a visitor.  An integer token   *)
(* without sign is a "uint" (visit_u64), a negative one an "int"           *)
(* (visit_i64), a number with a fraction or an exponent a "float"          *)
(* (visit_f64).  An object is the sequence of its entries in text order.   *)
(***************************************************************************)
JVal(t, b, w, f, s, a) == [t |-> t, b |-> b, w |-> w, f |-> f, s |-> s, a |-> a]

JNull == JVal("null", FALSE, WZero, FZero, <<>>, <<>>)

JBool(b) == JVal("bool", b, WZero, FZero, <<>>, <<>>)

JUInt(w) == JVal("uint", FALSE, w, FZero, <<>>, <<>>)

JNInt(w) == JVal("int", FALSE, w, FZero, <<>>, <<>>)

JFloat(f) == JVal("float", FALSE, WZero, f, <<>>, <<>>)

JStr(s) == JVal("string", FALSE, WZero, FZero, s, <<>>)

JArr(a) == JVal("array", FALSE, WZero, FZero, <<>>, a)

JObj(entries) == JVal("object", FALSE, WZero, FZero, <<>>, entries)

Entry(k, v) == [k |-> k, v |-> v]

\* What the serializer methods write, read back as a token.
serialize_unit == JNull

serialize_bool(b) == JBool(b)

serialize_int(w) == IF w.neg THEN JNInt(w) ELSE JUInt(w)

serialize_f64(x) == JFloat(x)

serialize_str(s) == JStr(s)

\* Serializer::collect_str: the Display text of the value, as a JSON string.
collect_str(text) == JStr(text)

InvalidType == Err("invalid type")

(***************************************************************************)
(* canonical/scalar.rs                                                     *)
(***************************************************************************)
SerializeBool(v) == Ok(serialize_bool(v))

DeserializeBool(j) == IF j.t = "bool" THEN Ok(j.b) ELSE InvalidType

SerializeI32(v) == Ok(serialize_int(v))

DeserializeI32(j) ==
    CASE j.t \in {"uint", "int"} -> TryFrom(j.w, I32_MIN, I32_MAX, "i32 out of range")
      [] j.t = "float" -> i32_from_f64(j.f)
      [] j.t = "string" -> i32_from_str(j.s)
      [] OTHER -> InvalidType

SerializeU32(v) == Ok(serialize_int(v))

DeserializeU32(j) ==
    CASE j.t = "uint" -> TryFrom(j.w, WZero, U32_MAX, "u32 out of range")
      [] j.t = "int" -> IF j.w.neg THEN Err("u32 out of range")
                        ELSE TryFrom(j.w, WZero, U32_MAX, "u32 out of range")
      [] j.t = "float" -> u32_from_f64(j.f)
      [] j.t = "string" -> u32_from_str(j.s)
      [] OTHER -> InvalidType

\* An i64 written as serialize_i64 would write it: a JSON number.
SerializeI64Number(v) == Ok(serialize_int(v))

SerializeI64(v) == Ok(serialize_str(WToString(v)))

DeserializeI64(j) ==
    CASE j.t = "int" -> Ok(j.w)
      [] j.t = "float" -> i64_from_f64(j.f)
      [] j.t = "uint" -> TryFrom(j.w, I64_MIN, I64_MAX, "i64 out of range")
      [] j.t = "string" -> i64_from_str(j.s)
      [] OTHER -> InvalidType

SerializeU64(v) == Ok(serialize_str(WToString(v)))

DeserializeU64(j) ==
    CASE j.t = "uint" -> Ok(j.w)
      [] j.t = "float" -> u64_from_f64(j.f)
      [] j.t = "int" -> IF j.w.neg THEN Err("u64 out of range")
                        ELSE TryFrom(j.w, WZero, U64_MAX, "u64 out of range")
      [] j.t = "string" -> u64_from_str(j.s)
      [] OTHER -> InvalidType

serialize_float64(value) ==
    IF is_finite(value) THEN collect_str(FloatDisplay(value))
    ELSE IF is_nan(value) THEN serialize_str(StrNaN)
    ELSE IF is_sign_positive(value) THEN serialize_str(StrInfinity)
    ELSE serialize_str(StrNegInfinity)

serialize_float32(value) ==
    IF is_finite(value) THEN collect_str(FloatDisplay(value))
    ELSE IF is_nan(value) THEN serialize_str(StrNaN)
    ELSE IF is_sign_positive(value) THEN serialize_str(StrInfinity)
    ELSE serialize_str(StrNegInfinity)

SerializeF32(v) == Ok(serialize_float32(v))

DeserializeF32(j) ==
    CASE j.t = "float" -> IF ~is_finite(j.f) THEN Err("float must be finite")
                          ELSE f32_from_f64(j.f)
      [] j.t = "int" -> f32_from_i64_exact(j.w)
      [] j.t = "uint" -> f32_from_u64_exact(j.w)
      [] j.t = "string" -> f32_from_parsed(parse_float(j.s))
      [] OTHER -> InvalidType

SerializeF64(v) == Ok(serialize_float64(v))

DeserializeF64(j) ==
    CASE j.t = "float" -> IF ~is_finite(j.f) THEN Err("float must be finite")
                          ELSE Ok(j.f)
      [] j.t = "int" -> f64_from_i64_exact(j.w)
      [] j.t = "uint" -> f64_from_u64_exact(j.w)
      [] j.t = "string" -> parse_float(j.s)
      [] OTHER -> InvalidType

SerializeString(v) == Ok(serialize_str(v))

DeserializeString(j) == IF j.t = "string" THEN Ok(j.s) ELSE InvalidType

(***************************************************************************)
(* Bytes: base64, standard alphabet, "=" padding (BASE64_STANDARD).        *)
(* A byte string is a sequence of integers in 0..255.                      *)
(***************************************************************************)
Base64Alphabet == UpperChars \o LowerChars \o DigitChars \o <<"+", "/">>

B64Char(v) == Base64Alphabet[v + 1]

IsB64Char(c) == \E i \in 1..64 : Base64Alphabet[i] = c

B64Val(c) == (CHOOSE i \in 1..64 : Base64Alphabet[i] = c) - 1

RECURSIVE Base64Encode(_)
Base64Encode(bytes) ==
    IF bytes = <<>> THEN <<>>
    ELSE IF Len(bytes) = 1
    THEN <<B64Char(bytes[1] \div 4), B64Char((bytes[1] % 4) * 16), "=", "=">>
    ELSE IF Len(bytes) = 2
    THEN <<B64Char(bytes[1] \div 4),
           B64Char((bytes[1] % 4) * 16 + bytes[2] \div 16),
           B64Char((bytes[2] % 16) * 4), "=">>
    ELSE <<B64Char(bytes[1] \div 4),
           B64Char((bytes[1] % 4) * 16 + bytes[2] \div 16),
           B64Char((bytes[2] % 16) * 4 + bytes[3] \div 64),
           B64Char(bytes[3] % 64)>>
         \o Base64Encode(SubSeq(bytes, 4, Len(bytes)))

\* One group of four characters; padding is accepted in the last group only,
\* and the bits a padded group leaves over must be zero.
Base64Group(g, last) ==
    LET a == B64Val(g[1])
        b == B64Val(g[2])
        c == B64Val(g[3])
        d == B64Val(g[4])
    IN  IF ~IsB64Char(g[1]) \/ ~IsB64Char(g[2]) THEN Err("invalid byte")
        ELSE IF g[3] = "=" /\ g[4] = "="
        THEN IF last /\ b % 16 = 0 THEN Ok(<<a * 4 + b \div 16>>)
             ELSE Err("invalid padding")
        ELSE IF ~IsB64Char(g[3]) THEN Err("invalid byte")
        ELSE IF g[4] = "="
        THEN IF last /\ c % 4 = 0
             THEN Ok(<<a * 4 + b \div 16, (b % 16) * 16 + c \div 4>>)
             ELSE Err("invalid padding")
        ELSE IF ~IsB64Char(g[4]) THEN Err("invalid byte")
        ELSE Ok(<<a * 4 + b \div 16, (b % 16) * 16 + c \div 4, (c % 4) * 64 + d>>)

RECURSIVE Base64Decode(_)
Base64Decode(text) ==
    IF text = <<>> THEN Ok(<<>>)
    ELSE IF Len(text) < 4 THEN Err("invalid length")
    ELSE LET g == Base64Group(SubSeq(text, 1, 4), Len(text) = 4)
             rest == Base64Decode(SubSeq(text, 5, Len(text)))
         IN  IF ~g.ok THEN g
             ELSE IF ~rest.ok THEN rest
             ELSE Ok(g.v \o rest.v)

\* A serializer that leaves the padding out (BASE64_STANDARD_NO_PAD).
SerializeBytesNoPad(v) ==
    Ok(serialize_str(SelectSeq(Base64Encode(v), LAMBDA c : c # "=")))

SerializeBytes(v) == Ok(serialize_str(Base64Encode(v)))

DeserializeBytes(j) ==
    IF j.t # "string" THEN InvalidType ELSE Base64Decode(j.s)

(***************************************************************************)
(* canonical/wkt.rs: Timestamp and Duration.                               *)
(* A Timestamp or Duration is [seconds |-> wide integer (i64),             *)
(* nanos |-> integer (i32)].                                               *)
(***************************************************************************)
Timestamp(seconds, nanos) == [seconds |-> seconds, nanos |-> nanos]

Duration(seconds, nanos) == [seconds |-> seconds, nanos |-> nanos]

\* 0001-01-01T00:00:00Z and 9999-12-31T23:59:59Z, in seconds since the epoch.
MIN_TIMESTAMP_SECONDS == Wide(TRUE, <<0, 0, 621, 3559, 6800>>)

MAX_TIMESTAMP_SECONDS == Wide(FALSE, <<0, 0, 2534, 230, 799>>)

SecondsPerDay == 24 * 3600

NanosPerSecond == 1000 * 1000 * 1000

\* chrono: the civil date of a day number (days since 1970-01-01) in the
\* proleptic Gregorian calendar, and back.
CivilFromDays(days) ==
    LET z == days + 719468
        era == z \div 146097
        doe == z - era * 146097
        yoe == (doe - doe \div 1460 + doe \div 36524 - doe \div 146096) \div 365
        doy == doe - (365 * yoe + yoe \div 4 - yoe \div 100)
        mp == (5 * doy + 2) \div 153
        d == doy - (153 * mp + 2) \div 5 + 1
        m == IF mp < 10 THEN mp + 3 ELSE mp - 9
    IN  [year |-> yoe + era * 400 + (IF m <= 2 THEN 1 ELSE 0), month |-> m, day |-> d]

DaysFromCivil(year, month, day) ==
    LET y == IF month <= 2 THEN year - 1 ELSE year
        era == y \div 400
        yoe == y - era * 400
        doy == (153 * (IF month > 2 THEN month - 3 ELSE month + 9) + 2) \div 5 + day - 1
        doe == yoe * 365 + yoe \div 4 - yoe \div 100 + doy
    IN  era * 146097 + doe - 719468

IsLeapYear(y) == y % 4 = 0 /\ (y % 100 # 0 \/ y % 400 = 0)

DaysInMonth(y, m) ==
    IF m = 2 THEN (IF IsLeapYear(y) THEN 29 ELSE 28)
    ELSE IF m \in {4, 6, 9, 11} THEN 30 ELSE 31

\* s with its trailing "0" characters removed: while s.ends_with('0') { s.pop() }.
RECURSIVE PopTrailingZeros(_)
PopTrailingZeros(s) ==
    IF s # <<>> /\ Last(s) = "0" THEN PopTrailingZeros(Front(s)) ELSE s

format_timestamp(value) ==
    IF WLt(value.seconds, MIN_TIMESTAMP_SECONDS) \/ WLt(MAX_TIMESTAMP_SECONDS, value.seconds)
    THEN Err("timestamp seconds out of range")
    ELSE IF value.nanos < 0 \/ value.nanos >= NanosPerSecond
    THEN Err("timestamp nanos out of range")
    ELSE
        LET days == WSmall(WDivFloor(value.seconds, SecondsPerDay))
            sod == WModFloor(value.seconds, SecondsPerDay)
            date == CivilFromDays(days)
            hour == sod \div 3600
            minute == (sod % 3600) \div 60
            second == sod % 60
            nano == value.nanos
            formatted ==
                PadDigits(date.year, 4) \o <<"-">> \o PadDigits(date.month, 2) \o <<"-">>
                \o PadDigits(date.day, 2) \o <<"T">> \o PadDigits(hour, 2) \o <<":">>
                \o PadDigits(minute, 2) \o <<":">> \o PadDigits(second, 2)
            frac == PopTrailingZeros(PadDigits(nano, 9))
        IN  Ok(formatted
               \o (IF nano # 0 THEN <<".">> \o frac ELSE <<>>)
               \o <<"Z">>)

validate_timestamp_format(value) ==
    IF Contains(value, "t") THEN Err("timestamp must use 'T'")
    ELSE IF ~Contains(value, "T") THEN Err("timestamp must include 'T'")
    ELSE IF Contains(value, "z") THEN Err("timestamp must use 'Z'")
    ELSE Ok(<<>>)

\* The run of decimal digits at the start of s.
RECURSIVE LeadingDigits(_)
LeadingDigits(s) ==
    IF s # <<>> /\ IsDigit(Head(s)) THEN <<Head(s)>> \o LeadingDigits(Tail(s)) ELSE <<>>

\* chrono: the offset of an RFC 3339 date-time, in seconds east of UTC:
\* "Z" or "z", or a sign, two digits, ":" and two digits.
ParseOffset(s) ==
    IF s = <<"Z">> \/ s = <<"z">> THEN Ok(0)
    ELSE IF Len(s) = 6 /\ s[1] \in {"+", "-"} /\ AllDigits(SubSeq(s, 2, 3))
            /\ s[4] = ":" /\ AllDigits(SubSeq(s, 5, 6))
    THEN LET h == DigitsVal(SubSeq(s, 2, 3))
             m == DigitsVal(SubSeq(s, 5, 6))
             off == h * 3600 + m * 60
         IN  IF m >= 60 THEN Err("input is out of range")
             ELSE Ok(IF s[1] = "-" THEN -off ELSE off)
    ELSE Err("input contains invalid characters")

\* chrono: DateTime::parse_from_rfc3339, then with_timezone(&Utc); the result
\* is the UTC instant as [seconds, nanos].  A leap second (":60") is kept as
\* second 59 with 10^9 added to the nanosecond.
ParseRfc3339(s) ==
    LET shape ==
            /\ Len(s) >= 20
            /\ AllDigits(SubSeq(s, 1, 4)) /\ s[5] = "-"
            /\ AllDigits(SubSeq(s, 6, 7)) /\ s[8] = "-"
            /\ AllDigits(SubSeq(s, 9, 10)) /\ s[11] \in {"T", "t", " "}
            /\ AllDigits(SubSeq(s, 12, 13)) /\ s[14] = ":"
            /\ AllDigits(SubSeq(s, 15, 16)) /\ s[17] = ":"
            /\ AllDigits(SubSeq(s, 18, 19))
        year == DigitsVal(SubSeq(s, 1, 4))
        month == DigitsVal(SubSeq(s, 6, 7))
        day == DigitsVal(SubSeq(s, 9, 10))
        hour == DigitsVal(SubSeq(s, 12, 13))
        minute == DigitsVal(SubSeq(s, 15, 16))
        second == DigitsVal(SubSeq(s, 18, 19))
        rest == SubSeq(s, 20, Len(s))
        hasFrac == rest # <<>> /\ rest[1] = "."
        fracDigits == IF hasFrac THEN LeadingDigits(Tail(rest)) ELSE <<>>
        frac9 == SubSeq(fracDigits \o Zeros(9), 1, 9)
        nano == DigitsVal(frac9)
        offText == IF hasFrac THEN SubSeq(rest, 2 + Len(fracDigits), Len(rest)) ELSE rest
        offset == ParseOffset(offText)
        leap == second = 60
        local == WAdd(WMulSmall(WOf(DaysFromCivil(year, month, day)), SecondsPerDay),
                      WOf(hour * 3600 + minute * 60 + (IF leap THEN 59 ELSE second)))
    IN  IF ~shape THEN Err("input contains invalid characters")
        ELSE IF hasFrac /\ fracDigits = <<>> THEN Err("input contains invalid characters")
        ELSE IF month < 1 \/ month > 12 \/ day < 1 \/ day > DaysInMonth(year, month)
                \/ hour > 23 \/ minute > 59 \/ second > 60
        THEN Err("input is out of range")
        ELSE IF ~offset.ok THEN offset
        ELSE Ok([seconds |-> WSub(local, WOf(offset.v)),
                 nanos |-> nano + (IF leap THEN NanosPerSecond ELSE 0)])

parse_timestamp_string(value) ==
    LET fmt == validate_timestamp_format(value)
        utc == ParseRfc3339(value)
    IN  IF ~fmt.ok THEN fmt
        ELSE IF ~utc.ok THEN utc
        ELSE IF WLt(utc.v.seconds, MIN_TIMESTAMP_SECONDS)
                \/ WLt(MAX_TIMESTAMP_SECONDS, utc.v.seconds)
        THEN Err("timestamp seconds out of range")
        ELSE Ok(Timestamp(utc.v.seconds, utc.v.nanos))

SerializeTimestamp(v) ==
    IF format_timestamp(v).ok THEN Ok(serialize_str(format_timestamp(v).v))
    ELSE format_timestamp(v)

DeserializeTimestamp(j) ==
    IF j.t # "string" THEN InvalidType ELSE parse_timestamp_string(j.s)

MAX_DURATION_SECONDS == Wide(FALSE, <<0, 0, 3155, 7600, 0>>)

MIN_DURATION_SECONDS == Wide(TRUE, <<0, 0, 3155, 7600, 0>>)

format_duration(value) ==
    IF WLt(value.seconds, MIN_DURATION_SECONDS) \/ WLt(MAX_DURATION_SECONDS, value.seconds)
    THEN Err("duration seconds out of range")
    ELSE IF value.nanos <= -NanosPerSecond \/ value.nanos >= NanosPerSecond
    THEN Err("duration nanos out of range")
    ELSE IF (value.seconds.neg /\ value.nanos > 0)
            \/ (WLt(WZero, value.seconds) /\ value.nanos < 0)
    THEN Err("duration seconds and nanos must have same sign")
    ELSE IF WIsZero(value.seconds) /\ value.nanos = 0 THEN Ok(<<"0", "s">>)
    ELSE
        LET negative == value.seconds.neg \/ value.nanos < 0
            seconds == WAbs(value.seconds)
            nanos == Abs(value.nanos)
            whole == (IF negative THEN <<"-">> ELSE <<>>) \o WToString(seconds)
            result ==
                IF nanos # 0
                THEN PopTrailingZeros(whole \o <<".">> \o PadDigits(nanos, 9))
                ELSE whole
        IN  Ok(result \o <<"s">>)

\* The fraction of a duration, in nanoseconds.
DurationFraction(fraction) ==
    IF Len(fraction) > 9 THEN Err("invalid duration fractional")
    ELSE IF fraction = <<>> THEN Ok(0)
    ELSE IF ~ParseU32(fraction).ok THEN Err("invalid duration nanos")
    ELSE Ok(WSmall(ParseU32(fraction).v) * Pow10(9 - Len(fraction)))

parse_duration_string(text) ==
    IF text = <<>> \/ Last(text) # "s" THEN Err("duration must end with 's'")
    ELSE IF Front(text) = <<>> THEN Err("duration is empty")
    ELSE
        LET stripped == Front(text)
            negative == stripped[1] = "-"
            value == IF negative THEN Tail(stripped) ELSE stripped
            dot == FirstIndexOf(value, {"."})
            seconds_part == IF dot = 0 THEN value ELSE SubSeq(value, 1, dot - 1)
            secs == ParseI64(seconds_part)
            frac == IF dot = 0 THEN Ok(0)
                    ELSE DurationFraction(SubSeq(value, dot + 1, Len(value)))
            seconds == IF negative THEN WNeg(secs.v) ELSE secs.v
            nanos == IF negative THEN -frac.v ELSE frac.v
        IN  IF ~secs.ok THEN Err("invalid duration seconds")
            ELSE IF ~frac.ok THEN frac
            ELSE IF WLt(seconds, MIN_DURATION_SECONDS) \/ WLt(MAX_DURATION_SECONDS, seconds)
            THEN Err("duration seconds out of range")
            ELSE IF nanos <= -NanosPerSecond \/ nanos >= NanosPerSecond
            THEN Err("duration nanos out of range")
            ELSE IF (seconds.neg /\ nanos > 0) \/ (WLt(WZero, seconds) /\ nanos < 0)
            THEN Err("duration seconds and nanos must have same sign")
            ELSE Ok(Duration(seconds, nanos))

\* A serializer of the whole seconds of a Duration, with no check.
SerializeDurationSeconds(v) == Ok(serialize_str(WToString(v.seconds) \o <<"s">>))

SerializeDuration(v) ==
    IF format_duration(v).ok THEN Ok(serialize_str(format_duration(v).v))
    ELSE format_duration(v)

DeserializeDuration(j) ==
    IF j.t # "string" THEN InvalidType ELSE parse_duration_string(j.s)

(***************************************************************************)
(* canonical/wkt.rs: FieldMask.  A FieldMask holds its paths, strings of   *)
(* segments separated by ".".                                              *)
(***************************************************************************)
FieldMask(paths) == [paths |-> paths]

\* str::split: the parts of s between the occurrences of c, empty ones kept.
RECURSIVE Split(_, _)
Split(s, c) ==
    IF FirstIndexOf(s, {c}) = 0 THEN <<s>>
    ELSE <<SubSeq(s, 1, FirstIndexOf(s, {c}) - 1)>>
             \o Split(SubSeq(s, FirstIndexOf(s, {c}) + 1, Len(s)), c)

\* [String]::join
RECURSIVE Join(_, _)
Join(ss, sep) ==
    IF ss = <<>> THEN <<>>
    ELSE IF Len(ss) = 1 THEN ss[1]
    ELSE ss[1] \o sep \o Join(Tail(ss), sep)

\* A part of snake_to_lower_camel with its first character mapped by Case.
PushPart(part, Case(_)) ==
    IF part = <<>> THEN <<>> ELSE <<Case(part[1])>> \o Tail(part)

camel_parts(parts) ==
    PushPart(parts[1], to_ascii_lowercase)
        \o Concat([i \in 1..(Len(parts) - 1) |-> PushPart(parts[i + 1], to_ascii_uppercase)])

snake_to_lower_camel(value) == camel_parts(Split(value, "_"))

lower_camel_to_snake(value) ==
    Concat([index \in 1..Len(value) |->
               IF is_ascii_uppercase(value[index])
               THEN (IF index > 1 THEN <<"_">> ELSE <<>>) \o <<to_ascii_lowercase(value[index])>>
               ELSE <<value[index]>>])

\* A round trip that gives back the segment, whatever it is.
same_segment(segment) == segment

\* `let round_trip = lower_camel_to_snake(&json_segment);`
round_trip(segment) == lower_camel_to_snake(snake_to_lower_camel(segment))

\* The body of the loop over the segments of a path, when serializing.
serialize_segment(segment) ==
    IF segment = <<>> THEN Err("field mask segment is empty")
    ELSE IF round_trip(segment) # segment
    THEN Err("field mask segment does not round trip")
    ELSE Ok(<<snake_to_lower_camel(segment)>>)

JoinOk(r, sep) == IF r.ok THEN Ok(<<Join(r.v, sep)>>) ELSE r

\* The body of the loop over the paths: the part pushed, or the error.
serialize_path(path) ==
    IF path = <<>> THEN Err("field mask path is empty")
    ELSE JoinOk(Collect([i \in 1..Len(Split(path, ".")) |->
                            serialize_segment(Split(path, ".")[i])]), <<".">>)

SerializeStr(r) == IF r.ok THEN Ok(serialize_str(r.v[1])) ELSE r

\* impl CanonicalSerialize for prost_types::FieldMask
SerializeFieldMask(v) ==
    SerializeStr(JoinOk(Collect([i \in 1..Len(v.paths) |-> serialize_path(v.paths[i])]),
                        <<",">>))

\* The body of the loop over the segments of a path, when deserializing.
deserialize_segment(segment) ==
    IF segment = <<>> THEN Err("field mask segment is empty")
    ELSE IF Contains(segment, "_") THEN Err("field mask contains underscore")
    ELSE Ok(<<lower_camel_to_snake(segment)>>)

deserialize_path(path) ==
    IF path = <<>> THEN Err("field mask path is empty")
    ELSE JoinOk(Collect([i \in 1..Len(Split(path, ".")) |->
                            deserialize_segment(Split(path, ".")[i])]), <<".">>)

PathsOk(r) == IF r.ok THEN Ok(FieldMask(r.v)) ELSE r

\* impl CanonicalDeserialize for prost_types::FieldMask
DeserializeFieldMask(j) ==
    IF j.t # "string" THEN InvalidType
    ELSE IF j.s = <<>> THEN Ok(FieldMask(<<>>))
    ELSE PathsOk(Collect([i \in 1..Len(Split(j.s, ",")) |->
                             deserialize_path(Split(j.s, ",")[i])]))

(***************************************************************************)
(* canonical/enums.rs.  An enum field holds its number, an i32; the enum   *)
(* type is named by its path.                                              *)
(***************************************************************************)
Variant(number, name) == [number |-> number, name |-> name]

\* The generated ProstEnum implementations: the variants of each enum type.
EnumVariants(path) ==
    IF path = "Status"
    THEN <<Variant(0, <<"U", "N", "K", "N", "O", "W", "N">>), Variant(1, <<"A", "C", "T", "I", "V", "E">>), Variant(2, <<"I", "N", "A", "C", "T", "I", "V", "E">>)>>
    ELSE IF path = "NullValue" THEN <<Variant(0, <<"N", "U", "L", "L", "_", "V", "A", "L", "U", "E">>)>>
    ELSE <<>>

from_i32(path, value) ==
    LET hits == SelectSeq(EnumVariants(path), LAMBDA v : WOf(v.number) = value)
    IN  IF hits = <<>> THEN None ELSE Some(hits[1])

from_str_name(path, name) ==
    LET hits == SelectSeq(EnumVariants(path), LAMBDA v : v.name = name)
    IN  IF hits = <<>> THEN None ELSE Some(hits[1])

is_null_value_enum(path) == path = "NullValue"

\* An enum serializer that writes the number whatever the variant.
SerializeEnumNumber(path, value) == Ok(serialize_int(value))

\* impl Serialize for CanonicalEnum
SerializeEnum(path, value) ==
    IF is_null_value_enum(path) /\ WIsZero(value) THEN Ok(serialize_unit)
    ELSE IF IsSome(from_i32(path, value))
    THEN Ok(serialize_str(Unwrap(from_i32(path, value)).name))
    ELSE Ok(serialize_int(value))

\* A deserializer of enum names only: a closed enum, with no number accepted.
DeserializeEnumName(path, j) ==
    IF j.t = "string" /\ IsSome(from_str_name(path, j.s))
    THEN Ok(WOf(Unwrap(from_str_name(path, j.s)).number))
    ELSE Err("invalid enum string")

\* impl Deserialize for CanonicalEnumValue
DeserializeEnumValue(path, j) ==
    CASE j.t = "null" ->
            IF is_null_value_enum(path) THEN Ok(WZero) ELSE Err("invalid enum value")
      [] j.t = "string" ->
            IF is_null_value_enum(path) /\ j.s = <<"N", "U", "L", "L", "_", "V", "A", "L", "U", "E">> THEN Ok(WZero)
            ELSE IF IsSome(from_str_name(path, j.s))
            THEN Ok(WOf(Unwrap(from_str_name(path, j.s)).number))
            ELSE Err("invalid enum string")
      [] j.t \in {"int", "uint"} ->
            TryFrom(j.w, I32_MIN, I32_MAX, "enum number out of range")
      [] OTHER -> InvalidType

\* An Option that hands null to T's deserializer as it does any other value.
OptionAlwaysSome(j, r) == IF r.ok THEN Ok(Some(r.v)) ELSE r

\* Option::<T>::deserialize: null is None (visit_none), anything else is
\* Some of what T's deserializer makes of it.
OptionOf(j, r) ==
    IF j.t = "null" THEN Ok(None)
    ELSE IF r.ok THEN Ok(Some(r.v)) ELSE r

\* impl Deserialize for CanonicalEnumOption
DeserializeEnumOption(path, j) == OptionOf(j, DeserializeEnumValue(path, j))

(***************************************************************************)
(* The derive macro's view of a field: its Kind.                           *)
(***************************************************************************)
KindScalar(sk) == [tag |-> "Scalar", sk |-> sk]

KindBytes == [tag |-> "Bytes"]

KindVec(inner) == [tag |-> "Vec", inner |-> inner]

KindMap(map_kind, key, inner) ==
    [tag |-> "Map", map_kind |-> map_kind, key |-> key, inner |-> inner]

KindOption(inner) == [tag |-> "Option", inner |-> inner]

KindEnum(path) == [tag |-> "Enum", path |-> path]

KindTimestamp == [tag |-> "Timestamp"]

KindDuration == [tag |-> "Duration"]

\* Kind::Message, with the field's Rust type, which selects the trait
\* implementation that Canonical::new(value) and CanonicalValue<T> use.
KindMessage(ty) == [tag |-> "Message", ty |-> ty]

\* to_json_name: drops each "_" and upper-cases the character after it.
RECURSIVE ToJsonNameFrom(_, _)
ToJsonNameFrom(name, capitalize_next) ==
    IF name = <<>> THEN <<>>
    ELSE IF Head(name) = "_" THEN ToJsonNameFrom(Tail(name), TRUE)
    ELSE IF capitalize_next
    THEN <<to_ascii_uppercase(Head(name))>> \o ToJsonNameFrom(Tail(name), FALSE)
    ELSE <<Head(name)>> \o ToJsonNameFrom(Tail(name), FALSE)

to_json_name(name) == ToJsonNameFrom(name, FALSE)

\* str::split('_')
RECURSIVE SplitUnderscore(_)
SplitUnderscore(name) ==
    LET i == FirstIndexOf(name, {"_"})
    IN  IF i = 0 THEN <<name>>
        ELSE <<SubSeq(name, 1, i - 1)>> \o SplitUnderscore(SubSeq(name, i + 1, Len(name)))

\* lower_camel: the fallback name of a oneof variant.
lower_camel(name) ==
    LET parts == SplitUnderscore(name)
        first == parts[1]
        rest == SelectSeq(Tail(parts), LAMBDA part : part # <<>>)
    IN  (IF first = <<>> THEN <<>>
         ELSE <<to_ascii_lowercase(Head(first))>> \o Tail(first))
        \o Concat([i \in 1..Len(rest) |->
                      <<to_ascii_uppercase(Head(rest[i]))>> \o Tail(rest[i])])

\* FieldInfo::from_field.  ident is the Rust field name; the two attributes
\* are None or Some(name).
field_names(ident, kind, is_oneof, oneof_type, json_name_attr, proto_name) ==
    [ident |-> ident, kind |-> kind, is_oneof |-> is_oneof, oneof_type |-> oneof_type,
     json_name |-> IF IsSome(json_name_attr) THEN Unwrap(json_name_attr)
                   ELSE to_json_name(proto_name),
     proto_name |-> proto_name]

from_field(ident, kind, is_oneof, oneof_type, proto_name_attr, json_name_attr) ==
    field_names(ident, kind, is_oneof, oneof_type, json_name_attr,
                IF IsSome(proto_name_attr) THEN Unwrap(proto_name_attr) ELSE ident)

\* A variant of a oneof enum, as expand_oneof_impl reads it.
variant_names(ident, kind, proto_name_attr, json_name_attr, fallback) ==
    [ident |-> ident, kind |-> kind,
     proto_name |-> IF IsSome(proto_name_attr) THEN Unwrap(proto_name_attr) ELSE fallback,
     json_name |-> IF IsSome(json_name_attr) THEN Unwrap(json_name_attr) ELSE fallback]

from_variant(ident, kind, proto_name_attr, json_name_attr) ==
    variant_names(ident, kind, proto_name_attr, json_name_attr, lower_camel(ident))

(***************************************************************************)
(* The derived types.  A message value is a function from the identifiers  *)
(* of its fields to their values; the value of a oneof field is None or    *)
(* Some(<<member, value>>).  A map value is a function from keys to values. *)
(***************************************************************************)
OneofValue(member, value) == <<member, value>>

MemberOf(oneof) == oneof[1]

PayloadOf(oneof) == oneof[2]

EmptyMap == [k \in {} |-> {}]

MapInsert(m, k, v) == [x \in DOMAIN m \cup {k} |-> IF x = k THEN v ELSE m[x]]

\* The variants of the generated oneof enums.
\* kitchen_sink::Choice
Choice ==
    <<from_variant(<<"N", "a", "m", "e">>, KindScalar("String"), Some(<<"n", "a", "m", "e">>), Some(<<"n", "a", "m", "e">>)),
      from_variant(<<"V", "a", "l", "u", "e">>, KindScalar("I32"), Some(<<"v", "a", "l", "u", "e">>), Some(<<"v", "a", "l", "u", "e">>))>>

\* test_all_types_proto3::OneofField
OneofField ==
    <<from_variant(<<"O", "n", "e", "o", "f", "U", "i", "n", "t", "3", "2">>, KindScalar("U32"),
                   Some(<<"o", "n", "e", "o", "f", "_", "u", "i", "n", "t", "3", "2">>), Some(<<"o", "n", "e", "o", "f", "U", "i", "n", "t", "3", "2">>)),
      from_variant(<<"O", "n", "e", "o", "f", "S", "t", "r", "i", "n", "g">>, KindScalar("String"),
                   Some(<<"o", "n", "e", "o", "f", "_", "s", "t", "r", "i", "n", "g">>), Some(<<"o", "n", "e", "o", "f", "S", "t", "r", "i", "n", "g">>)),
      from_variant(<<"O", "n", "e", "o", "f", "N", "u", "l", "l", "V", "a", "l", "u", "e">>, KindEnum("NullValue"),
                   Some(<<"o", "n", "e", "o", "f", "_", "n", "u", "l", "l", "_", "v", "a", "l", "u", "e">>), Some(<<"o", "n", "e", "o", "f", "N", "u", "l", "l", "V", "a", "l", "u", "e">>))>>

\* A oneof with a google.protobuf.Value member.
wkt_fields_Choice ==
    <<from_variant(<<"V", "a", "l", "u", "e", "M", "e", "m", "b", "e", "r">>, KindMessage("Value"), Some(<<"v", "a", "l", "u", "e", "_", "m", "e", "m", "b", "e", "r">>), Some(<<"v", "a", "l", "u", "e", "M", "e", "m", "b", "e", "r">>)),
      from_variant(<<"T", "e", "x", "t", "M", "e", "m", "b", "e", "r">>, KindScalar("String"), Some(<<"t", "e", "x", "t", "_", "m", "e", "m", "b", "e", "r">>), Some(<<"t", "e", "x", "t", "M", "e", "m", "b", "e", "r">>))>>

Variants(oneof_type) ==
    IF oneof_type = "Choice" THEN Choice
    ELSE IF oneof_type = "OneofField" THEN OneofField
    ELSE IF oneof_type = "wkt_fields_Choice" THEN wkt_fields_Choice
    ELSE <<>>

\* The fields of the generated message structs, in declaration order.
KitchenSink ==
    <<from_field(<<"i", "n", "t", "3", "2", "_", "f", "i", "e", "l", "d">>, KindScalar("I32"), FALSE, "",
                 Some(<<"i", "n", "t", "3", "2", "_", "f", "i", "e", "l", "d">>), Some(<<"i", "n", "t", "3", "2", "F", "i", "e", "l", "d">>)),
      from_field(<<"i", "n", "t", "6", "4", "_", "f", "i", "e", "l", "d">>, KindScalar("I64"), FALSE, "",
                 Some(<<"i", "n", "t", "6", "4", "_", "f", "i", "e", "l", "d">>), Some(<<"i", "n", "t", "6", "4", "F", "i", "e", "l", "d">>)),
      from_field(<<"u", "i", "n", "t", "6", "4", "_", "f", "i", "e", "l", "d">>, KindScalar("U64"), FALSE, "",
                 Some(<<"u", "i", "n", "t", "6", "4", "_", "f", "i", "e", "l", "d">>), Some(<<"u", "i", "n", "t", "6", "4", "F", "i", "e", "l", "d">>)),
      from_field(<<"b", "o", "o", "l", "_", "f", "i", "e", "l", "d">>, KindScalar("Bool"), FALSE, "",
                 Some(<<"b", "o", "o", "l", "_", "f", "i", "e", "l", "d">>), Some(<<"b", "o", "o", "l", "F", "i", "e", "l", "d">>)),
      from_field(<<"s", "t", "r", "i", "n", "g", "_", "f", "i", "e", "l", "d">>, KindScalar("String"), FALSE, "",
                 Some(<<"s", "t", "r", "i", "n", "g", "_", "f", "i", "e", "l", "d">>), Some(<<"s", "t", "r", "i", "n", "g", "F", "i", "e", "l", "d">>)),
      from_field(<<"b", "y", "t", "e", "s", "_", "f", "i", "e", "l", "d">>, KindBytes, FALSE, "",
                 Some(<<"b", "y", "t", "e", "s", "_", "f", "i", "e", "l", "d">>), Some(<<"b", "y", "t", "e", "s", "F", "i", "e", "l", "d">>)),
      from_field(<<"f", "l", "o", "a", "t", "_", "f", "i", "e", "l", "d">>, KindScalar("F32"), FALSE, "",
                 Some(<<"f", "l", "o", "a", "t", "_", "f", "i", "e", "l", "d">>), Some(<<"f", "l", "o", "a", "t", "F", "i", "e", "l", "d">>)),
      from_field(<<"d", "o", "u", "b", "l", "e", "_", "f", "i", "e", "l", "d">>, KindScalar("F64"), FALSE, "",
                 Some(<<"d", "o", "u", "b", "l", "e", "_", "f", "i", "e", "l", "d">>), Some(<<"d", "o", "u", "b", "l", "e", "F", "i", "e", "l", "d">>)),
      from_field(<<"s", "t", "a", "t", "u", "s">>, KindEnum("Status"), FALSE, "",
                 Some(<<"s", "t", "a", "t", "u", "s">>), Some(<<"s", "t", "a", "t", "u", "s">>)),
      from_field(<<"n", "e", "s", "t", "e", "d">>, KindOption(KindMessage("Nested")), FALSE, "",
                 Some(<<"n", "e", "s", "t", "e", "d">>), Some(<<"n", "e", "s", "t", "e", "d">>)),
      from_field(<<"r", "e", "p", "e", "a", "t", "e", "d", "_", "n", "e", "s", "t", "e", "d">>, KindVec(KindMessage("Nested")), FALSE, "",
                 Some(<<"r", "e", "p", "e", "a", "t", "e", "d", "_", "n", "e", "s", "t", "e", "d">>), Some(<<"r", "e", "p", "e", "a", "t", "e", "d", "N", "e", "s", "t", "e", "d">>)),
      from_field(<<"s", "t", "r", "i", "n", "g", "_", "t", "o", "_", "i", "n", "t">>,
                 KindMap("Hash", "String", KindScalar("I32")), FALSE, "",
                 Some(<<"s", "t", "r", "i", "n", "g", "_", "t", "o", "_", "i", "n", "t">>), Some(<<"s", "t", "r", "i", "n", "g", "T", "o", "I", "n", "t">>)),
      from_field(<<"i", "n", "t", "_", "t", "o", "_", "s", "t", "r", "i", "n", "g">>,
                 KindMap("Hash", "I32", KindScalar("String")), FALSE, "",
                 Some(<<"i", "n", "t", "_", "t", "o", "_", "s", "t", "r", "i", "n", "g">>), Some(<<"i", "n", "t", "T", "o", "S", "t", "r", "i", "n", "g">>)),
      from_field(<<"c", "h", "o", "i", "c", "e">>, KindOption(KindMessage("Choice")), TRUE, "Choice",
                 None, None),
      from_field(<<"t", "i", "m", "e", "s", "t", "a", "m", "p">>, KindOption(KindTimestamp), FALSE, "",
                 Some(<<"t", "i", "m", "e", "s", "t", "a", "m", "p">>), Some(<<"t", "i", "m", "e", "s", "t", "a", "m", "p">>)),
      from_field(<<"o", "p", "t", "i", "o", "n", "a", "l", "_", "i", "n", "t", "3", "2">>, KindOption(KindScalar("I32")), FALSE, "",
                 Some(<<"o", "p", "t", "i", "o", "n", "a", "l", "_", "i", "n", "t", "3", "2">>), Some(<<"o", "p", "t", "i", "o", "n", "a", "l", "I", "n", "t", "3", "2">>))>>

Nested ==
    <<from_field(<<"i", "d">>, KindScalar("I32"), FALSE, "", Some(<<"i", "d">>), Some(<<"i", "d">>)),
      from_field(<<"n", "o", "t", "e">>, KindScalar("String"), FALSE, "",
                 Some(<<"n", "o", "t", "e">>), Some(<<"n", "o", "t", "e">>))>>

TestAllTypesProto3 ==
    <<from_field(<<"o", "p", "t", "i", "o", "n", "a", "l", "_", "i", "n", "t", "3", "2">>, KindScalar("I32"), FALSE, "",
                 Some(<<"o", "p", "t", "i", "o", "n", "a", "l", "_", "i", "n", "t", "3", "2">>), Some(<<"o", "p", "t", "i", "o", "n", "a", "l", "I", "n", "t", "3", "2">>)),
      from_field(<<"o", "p", "t", "i", "o", "n", "a", "l", "_", "d", "u", "r", "a", "t", "i", "o", "n">>, KindOption(KindDuration), FALSE, "",
                 Some(<<"o", "p", "t", "i", "o", "n", "a", "l", "_", "d", "u", "r", "a", "t", "i", "o", "n">>), Some(<<"o", "p", "t", "i", "o", "n", "a", "l", "D", "u", "r", "a", "t", "i", "o", "n">>)),
      from_field(<<"o", "n", "e", "o", "f", "_", "f", "i", "e", "l", "d">>, KindOption(KindMessage("OneofField")), TRUE,
                 "OneofField", None, None)>>

\* The proto2 conformance message: its optional fields are Options.
TestAllTypesProto2 ==
    <<from_field(<<"o", "p", "t", "i", "o", "n", "a", "l", "_", "i", "n", "t", "3", "2">>, KindOption(KindScalar("I32")), FALSE, "",
                 Some(<<"o", "p", "t", "i", "o", "n", "a", "l", "_", "i", "n", "t", "3", "2">>), Some(<<"o", "p", "t", "i", "o", "n", "a", "l", "I", "n", "t", "3", "2">>)),
      from_field(<<"o", "p", "t", "i", "o", "n", "a", "l", "_", "f", "l", "o", "a", "t">>, KindOption(KindScalar("F32")), FALSE, "",
                 Some(<<"o", "p", "t", "i", "o", "n", "a", "l", "_", "f", "l", "o", "a", "t">>), Some(<<"o", "p", "t", "i", "o", "n", "a", "l", "F", "l", "o", "a", "t">>))>>

\* A message with fields of the well-known types, named as the conformance
\* messages name theirs, and the oneof above.
WktFields ==
    <<from_field(<<"o", "p", "t", "i", "o", "n", "a", "l", "_", "n", "u", "l", "l", "_", "v", "a", "l", "u", "e">>, KindEnum("NullValue"), FALSE, "",
                 Some(<<"o", "p", "t", "i", "o", "n", "a", "l", "_", "n", "u", "l", "l", "_", "v", "a", "l", "u", "e">>), Some(<<"o", "p", "t", "i", "o", "n", "a", "l", "N", "u", "l", "l", "V", "a", "l", "u", "e">>)),
      from_field(<<"o", "p", "t", "i", "o", "n", "a", "l", "_", "v", "a", "l", "u", "e">>, KindOption(KindMessage("Value")), FALSE, "",
                 Some(<<"o", "p", "t", "i", "o", "n", "a", "l", "_", "v", "a", "l", "u", "e">>), Some(<<"o", "p", "t", "i", "o", "n", "a", "l", "V", "a", "l", "u", "e">>)),
      from_field(<<"r", "e", "p", "e", "a", "t", "e", "d", "_", "v", "a", "l", "u", "e">>, KindVec(KindMessage("Value")), FALSE, "",
                 Some(<<"r", "e", "p", "e", "a", "t", "e", "d", "_", "v", "a", "l", "u", "e">>), Some(<<"r", "e", "p", "e", "a", "t", "e", "d", "V", "a", "l", "u", "e">>)),
      from_field(<<"m", "a", "p", "_", "v", "a", "l", "u", "e">>, KindMap("BTree", "String", KindMessage("Value")), FALSE, "",
                 Some(<<"m", "a", "p", "_", "v", "a", "l", "u", "e">>), Some(<<"m", "a", "p", "V", "a", "l", "u", "e">>)),
      from_field(<<"o", "p", "t", "i", "o", "n", "a", "l", "_", "s", "t", "r", "u", "c", "t">>, KindOption(KindMessage("Struct")), FALSE, "",
                 Some(<<"o", "p", "t", "i", "o", "n", "a", "l", "_", "s", "t", "r", "u", "c", "t">>), Some(<<"o", "p", "t", "i", "o", "n", "a", "l", "S", "t", "r", "u", "c", "t">>)),
      from_field(<<"o", "p", "t", "i", "o", "n", "a", "l", "_", "s", "t", "r", "i", "n", "g">>, KindOption(KindScalar("String")), FALSE, "",
                 Some(<<"o", "p", "t", "i", "o", "n", "a", "l", "_", "s", "t", "r", "i", "n", "g">>), Some(<<"o", "p", "t", "i", "o", "n", "a", "l", "S", "t", "r", "i", "n", "g">>)),
      from_field(<<"o", "p", "t", "i", "o", "n", "a", "l", "_", "i", "n", "t", "3", "2">>, KindScalar("I32"), FALSE, "",
                 Some(<<"o", "p", "t", "i", "o", "n", "a", "l", "_", "i", "n", "t", "3", "2">>), Some(<<"o", "p", "t", "i", "o", "n", "a", "l", "I", "n", "t", "3", "2">>)),
      from_field(<<"r", "e", "p", "e", "a", "t", "e", "d", "_", "i", "n", "t", "3", "2">>, KindVec(KindScalar("I32")), FALSE, "",
                 Some(<<"r", "e", "p", "e", "a", "t", "e", "d", "_", "i", "n", "t", "3", "2">>), Some(<<"r", "e", "p", "e", "a", "t", "e", "d", "I", "n", "t", "3", "2">>)),
      from_field(<<"o", "p", "t", "i", "o", "n", "a", "l", "_", "t", "i", "m", "e", "s", "t", "a", "m", "p">>, KindOption(KindTimestamp), FALSE, "",
                 Some(<<"o", "p", "t", "i", "o", "n", "a", "l", "_", "t", "i", "m", "e", "s", "t", "a", "m", "p">>), Some(<<"o", "p", "t", "i", "o", "n", "a", "l", "T", "i", "m", "e", "s", "t", "a", "m", "p">>)),
      from_field(<<"c", "h", "o", "i", "c", "e">>, KindOption(KindMessage("wkt_fields_Choice")), TRUE,
                 "wkt_fields_Choice", None, None)>>

\* A message with a map field of every kind of key (BTreeMap, as prost
\* generates them under btree_map), without name attributes.
MapFields ==
    <<from_field(<<"b", "y", "_", "s", "t", "r", "i", "n", "g">>, KindMap("BTree", "String", KindScalar("I32")), FALSE, "", None, None),
      from_field(<<"b", "y", "_", "b", "o", "o", "l">>, KindMap("BTree", "Bool", KindScalar("I32")), FALSE, "", None, None),
      from_field(<<"b", "y", "_", "i", "n", "t", "3", "2">>, KindMap("BTree", "I32", KindScalar("I32")), FALSE, "", None, None),
      from_field(<<"b", "y", "_", "i", "n", "t", "6", "4">>, KindMap("BTree", "I64", KindScalar("I32")), FALSE, "", None, None),
      from_field(<<"b", "y", "_", "u", "i", "n", "t", "3", "2">>, KindMap("BTree", "U32", KindScalar("I32")), FALSE, "", None, None),
      from_field(<<"b", "y", "_", "u", "i", "n", "t", "6", "4">>, KindMap("BTree", "U64", KindScalar("I32")), FALSE, "", None, None)>>

Fields(ty) ==
    IF ty = "KitchenSink" THEN KitchenSink
    ELSE IF ty = "Nested" THEN Nested
    ELSE IF ty = "TestAllTypesProto3" THEN TestAllTypesProto3
    ELSE IF ty = "TestAllTypesProto2" THEN TestAllTypesProto2
    ELSE IF ty = "WktFields" THEN WktFields
    ELSE IF ty = "MapFields" THEN MapFields
    ELSE <<>>

\* The first element of a sequence that satisfies P.
First(s, P(_)) == s[CHOOSE i \in 1..Len(s) : P(s[i]) /\ \A j \in 1..(i - 1) : ~P(s[j])]

Idents(fields) == {fields[i].ident : i \in 1..Len(fields)}

FieldIdents(ty) == Idents(Fields(ty))

FieldOf(ty, ident) == First(Fields(ty), LAMBDA f : f.ident = ident)

\* message with the field `ident` set to `value`
With(self, ident, value) == [self EXCEPT ![ident] = value]

RECURSIVE DefaultMessage(_)
default_value_expr(kind) ==
    CASE kind.tag = "Scalar" /\ kind.sk = "Bool" -> FALSE
      [] kind.tag = "Scalar" /\ kind.sk \in {"I32", "U32", "I64", "U64"} -> WZero
      [] kind.tag = "Enum" -> WZero
      [] kind.tag = "Scalar" /\ kind.sk \in {"F32", "F64"} -> FZero
      [] kind.tag = "Scalar" /\ kind.sk = "String" -> <<>>
      [] kind.tag \in {"Bytes", "Vec"} -> <<>>
      [] kind.tag = "Map" -> EmptyMap
      [] kind.tag = "Timestamp" -> Timestamp(WZero, 0)
      [] kind.tag = "Duration" -> Duration(WZero, 0)
      [] kind.tag = "Message" -> DefaultMessage(kind.ty)
      [] kind.tag = "Option" -> None

init_field(field) ==
    IF field.is_oneof THEN None
    ELSE IF field.kind.tag = "Option" THEN None
    ELSE IF field.kind.tag = "Vec" THEN <<>>
    ELSE IF field.kind.tag = "Map" THEN EmptyMap
    ELSE default_value_expr(field.kind)

init_fields(fields) ==
    [ident \in Idents(fields) |-> init_field(First(fields, LAMBDA f : f.ident = ident))]

\* The locals of visit_map after the field initialisers; also Default::default().
DefaultMessage(ty) == init_fields(Fields(ty))

is_empty(v) == DOMAIN v = {}

\* A check that holds of every value: the field is always written.
always_emit(kind, field) == TRUE

default_check_expr(kind, field) ==
    CASE kind.tag = "Scalar" /\ kind.sk = "Bool" -> field
      [] kind.tag = "Scalar" /\ kind.sk \in {"I32", "U32", "I64", "U64"} -> ~WIsZero(field)
      [] kind.tag = "Enum" -> ~WIsZero(field)
      [] kind.tag = "Scalar" /\ kind.sk \in {"F32", "F64"} -> ~FEq(field, FZero)
      [] kind.tag = "Scalar" /\ kind.sk = "String" -> ~is_empty(field)
      [] kind.tag \in {"Bytes", "Vec", "Map"} -> ~is_empty(field)
      [] kind.tag \in {"Timestamp", "Duration", "Message"} -> TRUE
      [] kind.tag = "Option" -> IsSome(field)

is_prost_value_type(kind) == kind.tag = "Message" /\ kind.ty = "Value"

(***************************************************************************)
(* canonical/wkt.rs: Struct, ListValue and Value.  A Value holds its kind, *)
(* None or Some of a record with the payload of the variant named by its   *)
(* tag; a Struct holds its fields, a BTreeMap; a ListValue its values.     *)
(***************************************************************************)
ValueKind(tag, b, n, s, fields, values) ==
    [tag |-> tag, b |-> b, n |-> n, s |-> s, fields |-> fields, values |-> values]

Value(kind) == [kind |-> kind]

NullValue(number) == ValueKind("NullValue", FALSE, FZero, <<>>, EmptyMap, <<>>)

NumberValue(number) == ValueKind("NumberValue", FALSE, number, <<>>, EmptyMap, <<>>)

StringValue(string) == ValueKind("StringValue", FALSE, FZero, string, EmptyMap, <<>>)

BoolValue(bool) == ValueKind("BoolValue", bool, FZero, <<>>, EmptyMap, <<>>)

\* StructValue(Struct { fields }) and ListValue(ListValue { values })
StructValue(fields) == ValueKind("StructValue", FALSE, FZero, <<>>, fields, <<>>)

ListValue(values) == ValueKind("ListValue", FALSE, FZero, <<>>, EmptyMap, values)

Struct(fields) == [fields |-> fields]

ListValueOf(values) == [values |-> values]

\* The entries of a Struct: a map from strings to Values.
StructFields == [tag |-> "Map", map_kind |-> "BTree", key |-> "String",
                 inner |-> [tag |-> "Message", ty |-> "Value"]]

\* canonical/wkt.rs: prost_types::Any, which holds a type URL and the bytes
\* of a message.
ProstAny(type_url, value) == [type_url |-> type_url, value |-> value]

\* impl CanonicalSerialize for prost_types::Any
SerializeAny(value) == Err("unsupported Any type")

\* A deserializer that takes null as the default Any.
DeserializeAnyNull(j) ==
    IF j.t = "null" THEN Ok(ProstAny(<<>>, <<>>)) ELSE Err("unsupported Any type")

\* impl CanonicalDeserialize for prost_types::Any
DeserializeAny(j) == Err("unsupported Any type")

\* The types whose codec is written in wkt.rs rather than derived.
WktTypes == {"Value", "Struct", "ListValue", "FieldMask", "Any"}

(***************************************************************************)
(* Serialization.  h is the state of the hasher of the HashMaps being      *)
(* serialized: it fixes the order in which a HashMap yields its entries.   *)
(***************************************************************************)
RECURSIVE SerializeMessage(_, _, _)
RECURSIVE SerializeCanonical(_, _, _)
RECURSIVE serialize_value_expr(_, _, _)
RECURSIVE SerializeValue(_, _)
RECURSIVE SerializeStruct(_, _)
RECURSIVE SerializeListValue(_, _)

\* impl CanonicalSerialize for T, selected by the type of the value.
SerializeCanonical(kind, value, h) ==
    CASE kind.tag = "Scalar" /\ kind.sk = "Bool" -> SerializeBool(value)
      [] kind.tag = "Scalar" /\ kind.sk = "I32" -> SerializeI32(value)
      [] kind.tag = "Scalar" /\ kind.sk = "U32" -> SerializeU32(value)
      [] kind.tag = "Scalar" /\ kind.sk = "I64" -> SerializeI64(value)
      [] kind.tag = "Scalar" /\ kind.sk = "U64" -> SerializeU64(value)
      [] kind.tag = "Scalar" /\ kind.sk = "F32" -> SerializeF32(value)
      [] kind.tag = "Scalar" /\ kind.sk = "F64" -> SerializeF64(value)
      [] kind.tag = "Scalar" /\ kind.sk = "String" -> SerializeString(value)
      [] kind.tag = "Bytes" -> SerializeBytes(value)
      [] kind.tag = "Timestamp" -> SerializeTimestamp(value)
      [] kind.tag = "Duration" -> SerializeDuration(value)
      [] kind.tag = "Message" /\ kind.ty = "Value" -> SerializeValue(value, h)
      [] kind.tag = "Message" /\ kind.ty = "Struct" -> SerializeStruct(value, h)
      [] kind.tag = "Message" /\ kind.ty = "ListValue" -> SerializeListValue(value, h)
      [] kind.tag = "Message" /\ kind.ty = "FieldMask" -> SerializeFieldMask(value)
      [] kind.tag = "Message" /\ kind.ty = "Any" -> SerializeAny(value)
      [] kind.tag = "Message" /\ kind.ty \notin WktTypes ->
            SerializeMessage(kind.ty, value, h)

serialize_value_expr(kind, value, h) ==
    IF kind.tag = "Enum" THEN SerializeEnum(kind.path, value)
    ELSE SerializeCanonical(kind, value, h)

\* SerializeSeq::end / SerializeMap::end: the array or the object of the
\* elements written, or the error of the first that failed.
end_seq(elements) == IF elements.ok THEN Ok(JArr(elements.v)) ELSE elements

end_map(entries) == IF entries.ok THEN Ok(JObj(entries.v)) ELSE entries

\* map.serialize_entry(name, value): the entry, or the error of the value.
serialize_entry(name, value) ==
    IF value.ok THEN Ok(<<Entry(name, value.v)>>) ELSE value

\* impl Serialize for CanonicalSeq / CanonicalEnumSeq
CanonicalSeq(inner, values, h) ==
    end_seq(Collect([i \in 1..Len(values) |->
                        One(serialize_value_expr(inner, values[i], h))]))

\* ToString for a map key.
KeyToString(key_kind, key) ==
    CASE key_kind = "String" -> key
      [] key_kind = "Bool" -> IF key THEN <<"t", "r", "u", "e">> ELSE <<"f", "a", "l", "s", "e">>
      [] OTHER -> WToString(key)

Reverse(s) == [i \in 1..Len(s) |-> s[Len(s) + 1 - i]]

\* The keys of a map in the order its iterator yields them.  The order of a
\* HashMap is unspecified: it is some order, or its reverse, according to h.
Enumerate(S) ==
    CHOOSE s \in [1..Cardinality(S) -> S] : \A k \in S : \E i \in 1..Cardinality(S) : s[i] = k

MapIter(map_kind, m, h) ==
    IF h /\ map_kind = "Hash" THEN Reverse(Enumerate(DOMAIN m)) ELSE Enumerate(DOMAIN m)

\* impl Serialize for CanonicalMapRef / CanonicalEnumMapRef
serialize_entries(kind, values, keys, h) ==
    end_map(Collect([i \in 1..Len(keys) |->
                        serialize_entry(KeyToString(kind.key, keys[i]),
                                        serialize_value_expr(kind.inner, values[keys[i]], h))]))

CanonicalMapRef(kind, values, h) ==
    serialize_entries(kind, values, MapIter(kind.map_kind, values, h), h)

\* impl CanonicalSerialize for prost_types::Struct
SerializeStruct(value, h) == CanonicalMapRef(StructFields, value.fields, h)

\* impl CanonicalSerialize for prost_types::ListValue
SerializeListValue(value, h) == CanonicalSeq(StructFields.inner, value.values, h)

\* The arm of the kind of a Value.
serialize_kind(k, h) ==
    CASE k.tag = "NullValue" -> Ok(serialize_unit)
      [] k.tag = "NumberValue" ->
            IF is_finite(k.n) THEN Ok(serialize_f64(k.n))
            ELSE Err("Value.number_value must be finite")
      [] k.tag = "StringValue" -> Ok(serialize_str(k.s))
      [] k.tag = "BoolValue" -> Ok(serialize_bool(k.b))
      [] k.tag = "StructValue" -> SerializeStruct(Struct(k.fields), h)
      [] k.tag = "ListValue" -> SerializeListValue(ListValueOf(k.values), h)

\* A serializer that writes null for a Value whose kind is unset.
SerializeValueOrNull(value, h) ==
    IF IsSome(value.kind) THEN serialize_kind(Unwrap(value.kind), h)
    ELSE Ok(serialize_unit)

\* impl CanonicalSerialize for prost_types::Value
SerializeValue(value, h) ==
    IF IsSome(value.kind) THEN serialize_kind(Unwrap(value.kind), h)
    ELSE Err("Value.kind is missing")

\* The arm of a variant of ProstOneof::serialize_field.
serialize_variant(arm, value, h) ==
    serialize_entry(arm.json_name, serialize_value_expr(arm.kind, value, h))

\* ProstOneof::serialize_field: the entry of the active variant.
OneofSerializeField(oneof_type, self, h) ==
    serialize_variant(First(Variants(oneof_type), LAMBDA v : v.ident = MemberOf(self)),
                      PayloadOf(self), h)

\* serialize_field: what the generated statement for one field appends to
\* the map, as a result holding no entry or one.
serialize_field(field, self, h) ==
    LET value == self[field.ident]
    IN  IF field.is_oneof
        THEN IF IsSome(value)
             THEN OneofSerializeField(field.oneof_type, Unwrap(value), h)
             ELSE Ok(<<>>)
        ELSE IF field.kind.tag = "Option"
        THEN IF IsSome(value)
             THEN serialize_entry(field.json_name,
                                  serialize_value_expr(field.kind.inner, Unwrap(value), h))
             ELSE Ok(<<>>)
        ELSE IF field.kind.tag = "Vec"
        THEN IF ~is_empty(value)
             THEN serialize_entry(field.json_name, CanonicalSeq(field.kind.inner, value, h))
             ELSE Ok(<<>>)
        ELSE IF field.kind.tag = "Map"
        THEN IF ~is_empty(value)
             THEN serialize_entry(field.json_name, CanonicalMapRef(field.kind, value, h))
             ELSE Ok(<<>>)
        ELSE IF default_check_expr(field.kind, value)
        THEN serialize_entry(field.json_name, serialize_value_expr(field.kind, value, h))
        ELSE Ok(<<>>)

\* A serializer that writes the fields last to first.
serialize_fields_reversed(fields, self, h) ==
    end_map(Collect([i \in 1..Len(fields) |->
                        serialize_field(fields[Len(fields) + 1 - i], self, h)]))

\* expand_serialize_struct: serialize_canonical of a derived message.
serialize_fields(fields, self, h) ==
    end_map(Collect([i \in 1..Len(fields) |-> serialize_field(fields[i], self, h)]))

SerializeMessage(ty, self, h) == serialize_fields(Fields(ty), self, h)

(***************************************************************************)
(* Deserialization.                                                        *)
(***************************************************************************)
RECURSIVE DeserializeMessage(_, _)
RECURSIVE DeserializeCanonical(_, _)
RECURSIVE DeserializeElement(_, _)
RECURSIVE DeserializeValue(_)
RECURSIVE DeserializeStruct(_)
RECURSIVE DeserializeListValue(_)

\* impl CanonicalDeserialize for T (CanonicalValue<T>), selected by the type.
DeserializeCanonical(kind, j) ==
    CASE kind.tag = "Scalar" /\ kind.sk = "Bool" -> DeserializeBool(j)
      [] kind.tag = "Scalar" /\ kind.sk = "I32" -> DeserializeI32(j)
      [] kind.tag = "Scalar" /\ kind.sk = "U32" -> DeserializeU32(j)
      [] kind.tag = "Scalar" /\ kind.sk = "I64" -> DeserializeI64(j)
      [] kind.tag = "Scalar" /\ kind.sk = "U64" -> DeserializeU64(j)
      [] kind.tag = "Scalar" /\ kind.sk = "F32" -> DeserializeF32(j)
      [] kind.tag = "Scalar" /\ kind.sk = "F64" -> DeserializeF64(j)
      [] kind.tag = "Scalar" /\ kind.sk = "String" -> DeserializeString(j)
      [] kind.tag = "Bytes" -> DeserializeBytes(j)
      [] kind.tag = "Timestamp" -> DeserializeTimestamp(j)
      [] kind.tag = "Duration" -> DeserializeDuration(j)
      [] kind.tag = "Message" /\ kind.ty = "Value" -> DeserializeValue(j)
      [] kind.tag = "Message" /\ kind.ty = "Struct" -> DeserializeStruct(j)
      [] kind.tag = "Message" /\ kind.ty = "ListValue" -> DeserializeListValue(j)
      [] kind.tag = "Message" /\ kind.ty = "FieldMask" -> DeserializeFieldMask(j)
      [] kind.tag = "Message" /\ kind.ty = "Any" -> DeserializeAny(j)
      [] kind.tag = "Message" /\ kind.ty \notin WktTypes -> DeserializeMessage(kind.ty, j)

\* The element deserializer of a repeated field or a map value:
\* CanonicalEnumValue<E> for an enum, CanonicalValue<T> otherwise.
DeserializeElement(kind, j) ==
    IF kind.tag = "Enum" THEN DeserializeEnumValue(kind.path, j)
    ELSE DeserializeCanonical(kind, j)

\* impl Deserialize for CanonicalOption
DeserializeCanonicalOption(kind, j) == OptionOf(j, DeserializeCanonical(kind, j))

\* impl Deserialize for CanonicalVec / CanonicalEnumVec
CanonicalVec(inner, j) ==
    CASE j.t = "null" -> Ok(<<>>)
      [] j.t = "array" -> Collect([i \in 1..Len(j.a) |-> One(DeserializeElement(inner, j.a[i]))])
      [] OTHER -> InvalidType

\* impl CanonicalMapKey: from_key
from_key(key_kind, value) ==
    CASE key_kind = "String" -> Ok(value)
      [] key_kind = "Bool" -> IF value = <<"t", "r", "u", "e">> THEN Ok(TRUE)
                              ELSE IF value = <<"f", "a", "l", "s", "e">> THEN Ok(FALSE)
                              ELSE Err("invalid bool map key")
      [] key_kind = "I32" -> MapErr(ParseI32(value), "invalid i32 map key")
      [] key_kind = "I64" -> MapErr(ParseI64(value), "invalid i64 map key")
      [] key_kind = "U32" -> MapErr(ParseU32(value), "invalid u32 map key")
      [] key_kind = "U64" -> MapErr(ParseU64(value), "invalid u64 map key")

\* CanonicalMap's visit_map: the entries from the i-th on, inserted into values.
RECURSIVE MapVisitFrom(_, _, _, _)
\* One iteration of its loop: next_entry, then values.insert(key, value).
map_insert_entry(kind, entries, i, values, key, value) ==
    IF ~key.ok THEN key
    ELSE IF ~value.ok THEN value
    ELSE MapVisitFrom(kind, entries, i + 1, MapInsert(values, key.v, value.v))

MapVisitFrom(kind, entries, i, values) ==
    IF i > Len(entries) THEN Ok(values)
    ELSE map_insert_entry(kind, entries, i, values,
                          from_key(kind.key, entries[i].k),
                          DeserializeElement(kind.inner, entries[i].v))

\* impl Deserialize for CanonicalMap / CanonicalEnumMap
CanonicalMap(kind, j) ==
    CASE j.t = "null" -> Ok(EmptyMap)
      [] j.t = "object" -> MapVisitFrom(kind, j.a, 1, EmptyMap)
      [] OTHER -> InvalidType

\* The value a visitor makes of what it collected, or the error met.
Wrap(r, Make(_)) == IF r.ok THEN Ok(Make(r.v)) ELSE r

\* impl CanonicalDeserialize for prost_types::Struct: deserialize_map
DeserializeStruct(j) ==
    IF j.t = "object" THEN Wrap(MapVisitFrom(StructFields, j.a, 1, EmptyMap), Struct)
    ELSE InvalidType

\* impl CanonicalDeserialize for prost_types::ListValue
DeserializeListValue(j) == Wrap(CanonicalVec(StructFields.inner, j), ListValueOf)

SomeKind(k) == Value(Some(k))

SomeNumber(n) == SomeKind(NumberValue(n))

SomeStruct(fields) == SomeKind(StructValue(fields))

SomeList(values) == SomeKind(ListValue(values))

\* impl CanonicalDeserialize for prost_types::Value: deserialize_any
DeserializeValue(j) ==
    CASE j.t = "null" -> Ok(SomeKind(NullValue(0)))
      [] j.t = "bool" -> Ok(SomeKind(BoolValue(j.b)))
      [] j.t = "int" -> Wrap(f64_from_i64_exact(j.w), SomeNumber)
      [] j.t = "uint" -> Wrap(f64_from_u64_exact(j.w), SomeNumber)
      [] j.t = "float" -> Ok(SomeNumber(j.f))
      [] j.t = "string" -> Ok(SomeKind(StringValue(j.s)))
      [] j.t = "array" ->
            Wrap(Collect([i \in 1..Len(j.a) |-> One(DeserializeValue(j.a[i]))]), SomeList)
      [] j.t = "object" -> Wrap(MapVisitFrom(StructFields, j.a, 1, EmptyMap), SomeStruct)

\* `field = value?` and `if let Some(value) = value? { field = value }`
set_field(field, self, r) == IF r.ok THEN Ok(With(self, field.ident, r.v)) ELSE r

set_if_some(field, self, r) ==
    IF ~r.ok THEN r
    ELSE IF IsSome(r.v) THEN Ok(With(self, field.ident, Unwrap(r.v)))
    ELSE Ok(self)

\* The value deserializer the arm of a field selects.
next_value(kind, value) ==
    IF kind.tag = "Option"
    THEN IF is_prost_value_type(kind.inner)
         THEN One(DeserializeCanonical(kind.inner, value))
         ELSE IF kind.inner.tag = "Enum"
         THEN DeserializeEnumOption(kind.inner.path, value)
         ELSE DeserializeCanonicalOption(kind.inner, value)
    ELSE IF kind.tag = "Vec" THEN CanonicalVec(kind.inner, value)
    ELSE IF kind.tag = "Map" THEN CanonicalMap(kind, value)
    ELSE IF kind.tag = "Enum" THEN DeserializeEnumOption(kind.path, value)
    ELSE DeserializeCanonicalOption(kind, value)

\* deserialize_match_arm: the body of the arm of a field, run on the locals
\* `self` with the value of the key; the locals afterwards, or the error.
deserialize_match_arm(field, self, value) ==
    IF field.kind.tag \in {"Option", "Vec", "Map"}
    THEN set_field(field, self, next_value(field.kind, value))
    ELSE set_if_some(field, self, next_value(field.kind, value))

NoMatch == [matched |-> FALSE, r |-> Ok(None)]

Matched(r) == [matched |-> TRUE, r |-> r]

\* A pattern of the JSON name alone.
match_json_name(named, key) == key = named.json_name

\* The match pattern of a field or a variant: its JSON name or its protobuf name.
match_pat(named, key) == key = named.json_name \/ key = named.proto_name

\* The arm of a variant of ProstOneof::try_deserialize, on the decoded value.
some_variant(arm, decoded) ==
    IF ~decoded.ok THEN Matched(decoded)
    ELSE IF IsSome(decoded.v)
    THEN Matched(Ok(Some(OneofValue(arm.ident, Unwrap(decoded.v)))))
    ELSE Matched(Ok(None))

try_deserialize_arm(arm, value) ==
    some_variant(arm, IF arm.kind.tag = "Enum"
                      THEN DeserializeEnumOption(arm.kind.path, value)
                      ELSE DeserializeCanonicalOption(arm.kind, value))

try_deserialize_arms(arms, value) ==
    IF arms = <<>> THEN NoMatch ELSE try_deserialize_arm(arms[1], value)

\* ProstOneof::try_deserialize
try_deserialize(oneof_type, key, value) ==
    try_deserialize_arms(SelectSeq(Variants(oneof_type), LAMBDA v : match_pat(v, key)),
                         value)

\* A check that never finds the oneof set.
never_some(self, field) == FALSE

\* `#ident.is_some()`: a member of the oneof has been read already.
oneof_is_some(self, field) == IsSome(self[field.ident])

\* The generated oneof_checks, from the i-th oneof field on: `continue` tells
\* whether the loop body ended there (with `continue` or with an error).
RECURSIVE oneof_checks(_, _, _, _)
\* The check of one oneof field, on the result m of its try_deserialize.
oneof_check(oneofs, i, self, entry, m) ==
    IF ~m.matched THEN oneof_checks(oneofs, i + 1, self, entry)
    ELSE IF ~m.r.ok THEN [continue |-> TRUE, r |-> m.r]
    ELSE IF IsSome(m.r.v)
    THEN IF oneof_is_some(self, oneofs[i])
         THEN [continue |-> TRUE, r |-> Err("multiple oneof fields set")]
         ELSE [continue |-> TRUE, r |-> Ok(With(self, oneofs[i].ident, m.r.v))]
    ELSE [continue |-> TRUE, r |-> Ok(self)]

oneof_checks(oneofs, i, self, entry) ==
    IF i > Len(oneofs) THEN [continue |-> FALSE, r |-> Ok(self)]
    ELSE oneof_check(oneofs, i, self, entry,
                     try_deserialize(oneofs[i].oneof_type, entry.k, entry.v))

\* A wildcard arm that refuses the key, as serde(deny_unknown_fields) does.
deny_unknown_fields(self, value) == Err("unknown field")

\* `_ => { map.next_value::<IgnoredAny>()?; }`: any value is consumed.
IgnoredAny(self, value) == Ok(self)

\* `match key.as_str()`: the arm of the first field whose pattern matches,
\* or the wildcard arm.
match_key(arms, self, value) ==
    IF arms # <<>> THEN deserialize_match_arm(arms[1], self, value)
    ELSE IgnoredAny(self, value)

\* The body of the loop after the oneof checks.
after_checks(fields, self, entry, checks) ==
    IF checks.continue THEN checks.r
    ELSE match_key(SelectSeq(fields, LAMBDA f : ~f.is_oneof /\ match_pat(f, entry.k)),
                   self, entry.v)

visit_key(fields, self, entry) ==
    after_checks(fields, self, entry,
                 oneof_checks(SelectSeq(fields, LAMBDA f : f.is_oneof), 1, self, entry))

\* One iteration of the loop of visit_map: the locals after the key `entry.k`
\* and its value have been read.
VisitKey(ty, self, entry) == visit_key(Fields(ty), self, entry)

RECURSIVE VisitMapFrom(_, _, _, _)
\* `while let Some(key) = map.next_key()? { ... }`: the loop goes on unless the
\* body returned an error.
visit_next(ty, entries, i, next) ==
    IF next.ok THEN VisitMapFrom(ty, entries, i + 1, next.v) ELSE next

VisitMapFrom(ty, entries, i, self) ==
    IF i > Len(entries) THEN Ok(self)
    ELSE visit_next(ty, entries, i, VisitKey(ty, self, entries[i]))

\* expand_deserialize_struct: deserialize_canonical of a derived message.
DeserializeMessage(ty, j) ==
    IF j.t = "object" THEN VisitMapFrom(ty, j.a, 1, DefaultMessage(ty))
    ELSE InvalidType

(***************************************************************************)
(* Equality of values as the derived PartialEq compares them: floats by    *)
(* IEEE equality, everything else structurally.                            *)
(***************************************************************************)
RECURSIVE PartialEq(_, _, _)
PartialEq(kind, a, b) ==
    CASE kind.tag = "Scalar" /\ kind.sk \in {"F32", "F64"} -> FEq(a, b)
      [] kind.tag = "Option" ->
            IF IsSome(a) /\ IsSome(b) THEN PartialEq(kind.inner, Unwrap(a), Unwrap(b))
            ELSE IsSome(a) = IsSome(b)
      [] kind.tag = "Vec" ->
            /\ Len(a) = Len(b)
            /\ \A i \in 1..Len(a) : PartialEq(kind.inner, a[i], b[i])
      [] kind.tag = "Map" ->
            /\ DOMAIN a = DOMAIN b
            /\ \A k \in DOMAIN a : PartialEq(kind.inner, a[k], b[k])
      [] kind.tag = "Message" /\ Variants(kind.ty) # <<>> ->
            /\ MemberOf(a) = MemberOf(b)
            /\ LET arms == SelectSeq(Variants(kind.ty), LAMBDA v : v.ident = MemberOf(a))
               IN  PartialEq(arms[1].kind, PayloadOf(a), PayloadOf(b))
      [] kind.tag = "Message" /\ Variants(kind.ty) = <<>> ->
            \A i \in 1..Len(Fields(kind.ty)) :
                PartialEq(Fields(kind.ty)[i].kind,
                          a[Fields(kind.ty)[i].ident], b[Fields(kind.ty)[i].ident])
      [] OTHER -> a = b

(***************************************************************************)
(* The values the model runs the codec on.                                 *)
(***************************************************************************)
\* 2^53 + 1, the first integer an f64 cannot hold.
Pow53Plus1 == Wide(FALSE, <<0, 9007, 1992, 5474, 993>>)

I64Values ==
    {WZero, WOf(1), WOf(-1), WOf(42), WOf(-1000000), I32_MAX, I32_MIN,
     MAX_SAFE_I64, MIN_SAFE_I64, Pow53Plus1, WNeg(Pow53Plus1), I64_MAX, I64_MIN}

U64Values ==
    {WZero, WOf(1), WOf(42), I32_MAX, U32_MAX, MAX_SAFE_U64, Pow53Plus1,
     I64_MAX, WAdd(I64_MAX, WOf(1)), U64_MAX}

\* f32::MAX, by its shortest decimal 3.4028235e38.
F32_MAX == FDec(34028235, 31)

FiniteValues ==
    {FZero, FNegZero, FDec(1, 0), FDec(125, -1), Float("finite", TRUE, 325, -2),
     FDec(1, -7), FDec(15, 9), Float("finite", TRUE, 7, 0), FDec(16777216, 0)}

F32Values == FiniteValues \cup {F32_MAX, FNaN, FInf, FNegInf}

F64Values == FiniteValues \cup {FDec(123456789, -4), FDec(17976931, 301), FNaN, FInf, FNegInf}

TimestampSeconds ==
    {MIN_TIMESTAMP_SECONDS, WOf(-1), WZero, WOf(951782400), WOf(1136214245),
     WOf(1640995200), MAX_TIMESTAMP_SECONDS}

FractionNanos ==
    {0, 1, 1000, 123000, 1000000, 100000000, 120000000, 123000000, 123400000,
     123456000, 123456789, 500000000, 999999999}

\* Timestamps, the last ones outside the range of the type.
TimestampValues ==
    {Timestamp(s, n) : s \in TimestampSeconds, n \in FractionNanos}
    \cup {Timestamp(WAdd(MAX_TIMESTAMP_SECONDS, WOf(1)), 0),
          Timestamp(WZero, -1), Timestamp(WZero, NanosPerSecond)}

DurationSeconds ==
    {WZero, WOf(1), WOf(-1), WOf(10), WOf(-3600), MAX_DURATION_SECONDS, MIN_DURATION_SECONDS}

\* Durations, among them ones whose seconds and nanos differ in sign and ones
\* out of range.
DurationValues ==
    {Duration(s, n) : s \in DurationSeconds, n \in FractionNanos}
    \cup {Duration(s, -n) : s \in DurationSeconds, n \in FractionNanos}
    \cup {Duration(WAdd(MAX_DURATION_SECONDS, WOf(1)), 0), Duration(WZero, NanosPerSecond)}

NestedOf(id, note) ==
    [ident \in FieldIdents("Nested") |-> IF ident = <<"i", "d">> THEN id ELSE note]

MapOf2(k1, v1, k2, v2) == MapInsert(MapInsert(EmptyMap, k1, v1), k2, v2)

\* The values a field of a message takes besides its default.
Candidates(ty, ident) ==
    CASE ty = "KitchenSink" /\ ident = <<"i", "n", "t", "3", "2", "_", "f", "i", "e", "l", "d">> -> {WOf(123), I32_MIN}
      [] ty = "KitchenSink" /\ ident = <<"i", "n", "t", "6", "4", "_", "f", "i", "e", "l", "d">> -> {Pow53Plus1, I64_MIN}
      [] ty = "KitchenSink" /\ ident = <<"u", "i", "n", "t", "6", "4", "_", "f", "i", "e", "l", "d">> -> {U64_MAX}
      [] ty = "KitchenSink" /\ ident = <<"b", "o", "o", "l", "_", "f", "i", "e", "l", "d">> -> {TRUE}
      [] ty = "KitchenSink" /\ ident = <<"s", "t", "r", "i", "n", "g", "_", "f", "i", "e", "l", "d">> -> {<<"h", "e", "l", "l", "o">>}
      [] ty = "KitchenSink" /\ ident = <<"b", "y", "t", "e", "s", "_", "f", "i", "e", "l", "d">> -> {<<0, 1, 2, 255>>, <<255>>}
      [] ty = "KitchenSink" /\ ident = <<"f", "l", "o", "a", "t", "_", "f", "i", "e", "l", "d">> ->
            {FDec(125, -1), FNegZero, FInf, F32_MAX}
      [] ty = "KitchenSink" /\ ident = <<"d", "o", "u", "b", "l", "e", "_", "f", "i", "e", "l", "d">> ->
            {Float("finite", TRUE, 325, -2), FNegInf}
      [] ty = "KitchenSink" /\ ident = <<"s", "t", "a", "t", "u", "s">> -> {WOf(1), WOf(7), WOf(-1)}
      [] ty = "KitchenSink" /\ ident = <<"n", "e", "s", "t", "e", "d">> ->
            {Some(NestedOf(WOf(42), <<"p", "r", "i", "m", "a", "r", "y">>)), Some(DefaultMessage("Nested"))}
      [] ty = "KitchenSink" /\ ident = <<"r", "e", "p", "e", "a", "t", "e", "d", "_", "n", "e", "s", "t", "e", "d">> ->
            {<<NestedOf(WOf(7), <<"f", "i", "r", "s", "t">>), NestedOf(WOf(8), <<"s", "e", "c", "o", "n", "d">>)>>,
             <<DefaultMessage("Nested")>>}
      [] ty = "KitchenSink" /\ ident = <<"s", "t", "r", "i", "n", "g", "_", "t", "o", "_", "i", "n", "t">> ->
            {MapOf2(<<"a", "l", "p", "h", "a">>, WOf(1), <<"b", "e", "t", "a">>, WOf(2)), MapInsert(EmptyMap, <<>>, WZero)}
      [] ty = "KitchenSink" /\ ident = <<"i", "n", "t", "_", "t", "o", "_", "s", "t", "r", "i", "n", "g">> ->
            {MapInsert(EmptyMap, WOf(7), <<"s", "e", "v", "e", "n">>), MapOf2(WOf(-1), <<>>, WOf(7), <<"x">>)}
      [] ty = "KitchenSink" /\ ident = <<"c", "h", "o", "i", "c", "e">> ->
            {Some(OneofValue(<<"N", "a", "m", "e">>, <<"c", "h", "o", "i", "c", "e", " ", "n", "a", "m", "e">>)), Some(OneofValue(<<"N", "a", "m", "e">>, <<>>)),
             Some(OneofValue(<<"V", "a", "l", "u", "e">>, WOf(7))), Some(OneofValue(<<"V", "a", "l", "u", "e">>, WZero))}
      [] ty = "KitchenSink" /\ ident = <<"t", "i", "m", "e", "s", "t", "a", "m", "p">> ->
            {Some(Timestamp(WOf(1640995200), 123000000)), Some(Timestamp(WZero, 0))}
      [] ty = "KitchenSink" /\ ident = <<"o", "p", "t", "i", "o", "n", "a", "l", "_", "i", "n", "t", "3", "2">> -> {Some(WZero), Some(WOf(5))}
      [] ty = "TestAllTypesProto3" /\ ident = <<"o", "p", "t", "i", "o", "n", "a", "l", "_", "i", "n", "t", "3", "2">> -> {WOf(1)}
      [] ty = "TestAllTypesProto3" /\ ident = <<"o", "p", "t", "i", "o", "n", "a", "l", "_", "d", "u", "r", "a", "t", "i", "o", "n">> ->
            {Some(Duration(WOf(-1), -500000000)), Some(Duration(WZero, 0))}
      [] ty = "TestAllTypesProto3" /\ ident = <<"o", "n", "e", "o", "f", "_", "f", "i", "e", "l", "d">> ->
            {Some(OneofValue(<<"O", "n", "e", "o", "f", "U", "i", "n", "t", "3", "2">>, WZero)), Some(OneofValue(<<"O", "n", "e", "o", "f", "S", "t", "r", "i", "n", "g">>, <<"x">>)),
             Some(OneofValue(<<"O", "n", "e", "o", "f", "N", "u", "l", "l", "V", "a", "l", "u", "e">>, WZero))}
      [] OTHER -> {}

\* The most fields of a message that hold a value other than the default.
MaxSet == 2

\* The messages of type ty with at most n fields set.
RECURSIVE MessagesWith(_, _)
MessagesWith(ty, n) ==
    IF n = 0 THEN {DefaultMessage(ty)}
    ELSE LET less == MessagesWith(ty, n - 1)
         IN  less \cup UNION {UNION {{With(m, ident, v) : v \in Candidates(ty, ident)}
                                        : ident \in FieldIdents(ty)} : m \in less}

MessageTypes == {"KitchenSink", "TestAllTypesProto3"}

(***************************************************************************)
(* The JSON objects the model parses: the sequences of at most MaxKeys     *)
(* entries drawn from a list of entries of each message type, with keys    *)
(* in both name forms, null and ill-typed values, and unknown keys.        *)
(***************************************************************************)
ParseEntries(ty) ==
    IF ty = "KitchenSink"
    THEN <<Entry(<<"n", "a", "m", "e">>, JStr(<<"h", "i">>)),
           Entry(<<"n", "a", "m", "e">>, JNull),
           Entry(<<"v", "a", "l", "u", "e">>, JUInt(WOf(7))),
           Entry(<<"v", "a", "l", "u", "e">>, JNull),
           Entry(<<"i", "n", "t", "3", "2", "F", "i", "e", "l", "d">>, JUInt(WOf(5))),
           Entry(<<"i", "n", "t", "3", "2", "_", "f", "i", "e", "l", "d">>, JStr(<<"a", "b", "c">>)),
           Entry(<<"s", "t", "r", "i", "n", "g", "_", "f", "i", "e", "l", "d">>, JStr(<<"t">>)),
           Entry(<<"o", "p", "t", "i", "o", "n", "a", "l", "I", "n", "t", "3", "2">>, JNull),
           Entry(<<"b", "o", "g", "u", "s">>, JObj(<<Entry(<<"n", "a", "m", "e">>, JUInt(WOf(1)))>>)),
           Entry(<<"c", "h", "o", "i", "c", "e">>, JStr(<<"x">>)),
           Entry(<<"v", "a", "l", "u", "e">>, JStr(<<"a", "b", "c">>))>>
    ELSE <<Entry(<<"o", "n", "e", "o", "f", "U", "i", "n", "t", "3", "2">>, JUInt(WOf(5))),
           Entry(<<"o", "n", "e", "o", "f", "_", "u", "i", "n", "t", "3", "2">>, JUInt(WOf(6))),
           Entry(<<"o", "n", "e", "o", "f", "_", "s", "t", "r", "i", "n", "g">>, JStr(<<"y">>)),
           Entry(<<"o", "n", "e", "o", "f", "S", "t", "r", "i", "n", "g">>, JNull),
           Entry(<<"o", "n", "e", "o", "f", "N", "u", "l", "l", "V", "a", "l", "u", "e">>, JNull),
           Entry(<<"o", "n", "e", "o", "f", "_", "n", "u", "l", "l", "_", "v", "a", "l", "u", "e">>, JStr(<<"N", "U", "L", "L", "_", "V", "A", "L", "U", "E">>)),
           Entry(<<"o", "p", "t", "i", "o", "n", "a", "l", "I", "n", "t", "3", "2">>, JUInt(WOf(3))),
           Entry(<<"o", "p", "t", "i", "o", "n", "a", "l", "_", "i", "n", "t", "3", "2">>, JNull),
           Entry(<<"o", "p", "t", "i", "o", "n", "a", "l", "_", "i", "n", "t", "3", "2">>, JFloat(FDec(15, -1))),
           Entry(<<"u", "n", "k", "n", "o", "w", "n">>, JArr(<<JNull>>))>>

\* The most keys of a parsed object.
MaxKeys == 3

\* The object whose i-th entry is the pick[i]-th entry of the list.
ObjectOf(ty, pick) == JObj([i \in 1..Len(pick) |-> ParseEntries(ty)[pick[i]]])

Picks(ty) == UNION {[1..n -> 1..Len(ParseEntries(ty))] : n \in 0..MaxKeys}

(***************************************************************************)
(* The program: the round trip of a value (serde_json::to_string, then     *)
(* serde_json::from_str), and the parsing of a JSON text.                  *)
(***************************************************************************)
VARIABLES
    pc,        \* "value": a value to serialize; "json": JSON to parse; "done"
    vkind,     \* the kind (type) of the value
    hasher,    \* the hasher state of the value's HashMaps
    original,  \* the value to serialize, or None
    encoded,   \* None, or the result of to_string, or Ok of the JSON to parse
    outcome,   \* None, or the result of from_str
    response,  \* None, or the result of to_string on the value from_str gave,
               \* or the ConformanceResponse of the conformance harness
    stdin,     \* the input of the conformance harness: frames and how it ends
    nread,     \* the number of frames the harness has read
    stdout     \* the frames the harness has written

vars == <<pc, vkind, hasher, original, encoded, outcome, response, stdin, nread, stdout>>

\* Outside the conformance harness there is no input and no output.
NoFrames ==
    /\ stdin = [frames |-> <<>>, tail |-> "boundary"]
    /\ nread = 0
    /\ stdout = <<>>

Init ==
    /\ NoFrames
    /\ pc = "value"
    /\ hasher \in BOOLEAN
    /\ encoded = None
    /\ outcome = None
    /\ response = None
    /\ \/ vkind = KindScalar("I64") /\ original \in I64Values
       \/ vkind = KindScalar("U64") /\ original \in U64Values
       \/ vkind = KindScalar("F32") /\ original \in F32Values
       \/ vkind = KindScalar("F64") /\ original \in F64Values
       \/ vkind = KindTimestamp /\ original \in TimestampValues
       \/ vkind = KindDuration /\ original \in DurationValues
       \/ \E ty \in MessageTypes :
             vkind = KindMessage(ty) /\ original \in MessagesWith(ty, MaxSet)

ParseInit ==
    /\ NoFrames
    /\ pc = "json"
    /\ hasher = FALSE
    /\ original = None
    /\ outcome = None
    /\ response = None
    /\ \E ty \in MessageTypes :
          /\ vkind = KindMessage(ty)
          /\ \E pick \in Picks(ty) : encoded = Ok(ObjectOf(ty, pick))

\* serde_json::to_string(&value)
Serialize ==
    /\ pc = "value"
    /\ encoded' = serialize_value_expr(vkind, original, hasher)
    /\ pc' = "json"
    /\ UNCHANGED <<vkind, hasher, original, outcome, response, stdin, nread, stdout>>

\* The call does not return: the thread panics.
Panicked == [ok |-> FALSE, v |-> <<>>, e |-> "panicked: attempt to negate with overflow"]

\* A field that the f32 deserializer reads: an f32 or an Option of one.
IsF32Field(field) ==
    /\ ~field.is_oneof
    /\ \/ field.kind.tag = "Scalar" /\ field.kind.sk = "F32"
       \/ /\ field.kind.tag = "Option"
          /\ field.kind.inner.tag = "Scalar"
          /\ field.kind.inner.sk = "F32"

\* The f32 visitor's visit_i64 takes value.abs() of i64::MIN: of the JSON
\* itself, or of a member that the message's deserializer reaches and hands
\* to an f32 field.
abs_overflows(kind, j) ==
    \/ /\ kind.tag = "Scalar"
       /\ kind.sk = "F32"
       /\ j.t = "int"
       /\ j.w = I64_MIN
    \/ /\ kind.tag = "Message"
       /\ j.t = "object"
       /\ \E n \in 1..Len(j.a) :
             /\ j.a[n].v.t = "int"
             /\ j.a[n].v.w = I64_MIN
             /\ \E i \in 1..Len(Fields(kind.ty)) :
                   /\ IsF32Field(Fields(kind.ty)[i])
                   /\ match_pat(Fields(kind.ty)[i], j.a[n].k)
             /\ DeserializeMessage(kind.ty, JObj(SubSeq(j.a, 1, n - 1))).ok

\* The outcomes of serde_json::from_str: what the deserializer computes
\* and, where an arithmetic overflow occurs, the panic of a build with
\* overflow checks.
from_str(kind, j) ==
    {DeserializeElement(kind, j)} \cup (IF abs_overflows(kind, j) THEN {Panicked} ELSE {})

\* serde_json::from_str(&json), of an input or of what to_string returned
Deserialize ==
    /\ pc = "json"
    /\ encoded.ok
    /\ outcome' \in from_str(vkind, encoded.v)
    /\ pc' = "done"
    /\ UNCHANGED <<vkind, hasher, original, encoded, response, stdin, nread, stdout>>

\* A further call of serde_json::to_string(&value) on the same value.
SerializeAgain ==
    /\ pc \in {"json", "done"}
    /\ response' = serialize_value_expr(vkind, original, hasher)
    /\ pc' = "again"
    /\ UNCHANGED <<vkind, hasher, original, encoded, outcome, stdin, nread, stdout>>

Next == Serialize \/ Deserialize \/ SerializeAgain

Spec == Init /\ [][Next]_vars

ParseNext == Deserialize

ParseSpec == ParseInit /\ [][ParseNext]_vars

(***************************************************************************)
(* Properties of the round trip (under Spec).                              *)
(***************************************************************************)
\* C1 -- JSON round trip: serializing a message whose fields respect the
\* invariants of the data model succeeds, and deserializing the JSON it
\* gives succeeds with a message equal to the one serialized.
RoundTrip ==
    vkind.tag = "Message" =>
        /\ pc = "json" => encoded.ok
        /\ pc = "done" => outcome.ok /\ PartialEq(vkind, outcome.v, original)

\* The name under which the value v of a field is written, if the key is
\* one a field that is set may write: a field that differs from what the
\* type starts with, a present optional, the active member of a oneof.
Emits(field, v, key) ==
    IF field.is_oneof
    THEN /\ IsSome(v)
         /\ key = First(Variants(field.oneof_type),
                        LAMBDA arm : arm.ident = MemberOf(Unwrap(v))).json_name
    ELSE key = field.json_name /\ v # init_field(field)

\* C6 -- Default elision: a message whose every field holds its default
\* value serializes to the empty object {}, and every key of the JSON of a
\* message is the key of a field that is not at its default, of a present
\* optional or message field, or of the active member of a oneof.
DefaultElision ==
    (pc # "value" /\ vkind.tag = "Message" /\ encoded.ok) =>
        /\ (\A i \in 1..Len(Fields(vkind.ty)) :
                original[Fields(vkind.ty)[i].ident] = init_field(Fields(vkind.ty)[i]))
           => encoded.v = JObj(<<>>)
        /\ \A n \in 1..Len(encoded.v.a) :
              \E i \in 1..Len(Fields(vkind.ty)) :
                  Emits(Fields(vkind.ty)[i], original[Fields(vkind.ty)[i].ident], encoded.v.a[n].k)

\* The empty message is written as {}.
DefaultElisionWitness ==
    /\ pc = "json"
    /\ vkind.tag = "Message"
    /\ vkind.ty = "KitchenSink"
    /\ original = DefaultMessage("KitchenSink")
    /\ encoded = Ok(JObj(<<>>))

\* text is the base-10 representation of w: an optional "-", then digits
\* without a leading zero whose value is the magnitude of w.
IsBase10Of(text, w) ==
    /\ Len(text) > (IF w.neg THEN 1 ELSE 0)
    /\ w.neg => Head(text) = "-"
    /\ AllDigits(IF w.neg THEN Tail(text) ELSE text)
    /\ (IF w.neg THEN Tail(text) ELSE text)[1] = "0" => Len(text) = 1
    /\ MagOfDigits(IF w.neg THEN Tail(text) ELSE text) = w.mag

Is64(k) == k.tag = "Scalar" /\ k.sk \in {"I64", "U64"}

\* C7 -- Every int64 and uint64 value, alone or as the field of a message, is
\* serialized as a JSON string holding its base-10 representation, never as
\* a JSON number.
Int64AsString ==
    pc # "value" =>
        /\ Is64(vkind) =>
              encoded.ok /\ encoded.v.t = "string" /\ IsBase10Of(encoded.v.s, original)
        /\ (vkind.tag = "Message" /\ encoded.ok) =>
              \A i \in 1..Len(Fields(vkind.ty)) :
                  Is64(Fields(vkind.ty)[i].kind) =>
                      /\ original[Fields(vkind.ty)[i].ident] # WZero
                         => \E n \in 1..Len(encoded.v.a) :
                               encoded.v.a[n].k = Fields(vkind.ty)[i].json_name
                      /\ \A n \in 1..Len(encoded.v.a) :
                            encoded.v.a[n].k = Fields(vkind.ty)[i].json_name
                            => /\ encoded.v.a[n].v.t = "string"
                               /\ IsBase10Of(encoded.v.a[n].v.s,
                                             original[Fields(vkind.ty)[i].ident])

\* i64::MIN is written as the string "-9223372036854775808".
Int64AsStringWitness ==
    /\ pc = "json"
    /\ vkind.tag = "Scalar"
    /\ vkind.sk = "I64"
    /\ original = I64_MIN
    /\ encoded = Ok(JStr(<<"-", "9", "2", "2", "3", "3", "7", "2", "0", "3", "6", "8", "5", "4", "7", "7", "5", "8", "0", "8">>))

\* C8 -- A finite float or double is serialized as a JSON number token, and
\* only the values that are not finite as the JSON strings "NaN", "Infinity"
\* and "-Infinity".
FloatAsNumber ==
    (pc # "value" /\ vkind.tag = "Scalar" /\ vkind.sk \in {"F32", "F64"}) =>
        /\ encoded.ok
        /\ IF is_finite(original) THEN encoded.v.t \in {"float", "uint", "int"}
           ELSE encoded.v = JStr(IF is_nan(original) THEN StrNaN
                              ELSE IF original.neg THEN StrNegInfinity
                              ELSE StrInfinity)

\* The fraction of a second in canonical form: no digits for zero, else the
\* first 3, 6 or 9 digits of the nanoseconds, the fewest that lose nothing.
CanonicalDigits(nanos) ==
    IF nanos = 0 THEN 0
    ELSE IF nanos % 1000000 = 0 THEN 3
    ELSE IF nanos % 1000 = 0 THEN 6
    ELSE 9

CanonicalFraction(nanos) ==
    IF nanos = 0 THEN <<>>
    ELSE <<".">> \o SubSeq(PadDigits(nanos, 9), 1, CanonicalDigits(nanos))

ValidTimestamp(v) ==
    /\ WLe(MIN_TIMESTAMP_SECONDS, v.seconds)
    /\ WLe(v.seconds, MAX_TIMESTAMP_SECONDS)
    /\ v.nanos >= 0
    /\ v.nanos < NanosPerSecond

\* C9 -- A valid Timestamp is serialized as an RFC 3339 string with an
\* uppercase "T" after the date and a "Z" at the end, whose fraction of a
\* second has exactly 0, 3, 6 or 9 digits, the fewest that keep the nanos.
TimestampFraction ==
    (pc # "value" /\ vkind.tag = "Timestamp" /\ ValidTimestamp(original)) =>
        /\ encoded.ok
        /\ encoded.v.t = "string"
        /\ Len(encoded.v.s) >= 20
        /\ encoded.v.s[11] = "T"
        /\ Last(encoded.v.s) = "Z"
        /\ SubSeq(encoded.v.s, 20, Len(encoded.v.s) - 1) = CanonicalFraction(original.nanos)

ValidDuration(v) ==
    /\ WLe(MIN_DURATION_SECONDS, v.seconds)
    /\ WLe(v.seconds, MAX_DURATION_SECONDS)
    /\ v.nanos > -NanosPerSecond
    /\ v.nanos < NanosPerSecond
    /\ ~(v.seconds.neg /\ v.nanos > 0)
    /\ ~(WLt(WZero, v.seconds) /\ v.nanos < 0)

\* "<signed-seconds>[.<fraction>]s" with the fraction in canonical form.
CanonicalDuration(v) ==
    (IF v.seconds.neg \/ v.nanos < 0 THEN <<"-">> ELSE <<>>)
    \o WToString(WAbs(v.seconds)) \o CanonicalFraction(Abs(v.nanos)) \o <<"s">>

\* C10 -- A valid Duration is serialized as "<signed-seconds>[.<fraction>]s"
\* whose fraction has exactly 0, 3, 6 or 9 digits, the fewest that keep the
\* nanos: zero is "0s", and -1 s -500000000 ns is "-1.500s".
DurationCanonical ==
    (pc # "value" /\ vkind.tag = "Duration" /\ ValidDuration(original)) =>
        encoded = Ok(JStr(CanonicalDuration(original)))

(***************************************************************************)
(* Properties of the parsing of a JSON object (under ParseSpec).           *)
(***************************************************************************)
Decode(ty, entries) == DeserializeMessage(ty, JObj(entries))

\* The entry decodes when it is the only one of its object.
ValidAlone(ty, entry) == Decode(ty, <<entry>>).ok

SameResult(r1, r2) ==
    /\ r1.ok = r2.ok
    /\ IF r1.ok THEN r1.v = r2.v ELSE r1.e = r2.e

\* The members of the oneof groups of a message, each with its group.
MembersIn(fields) ==
    Concat([i \in 1..Len(fields) |->
               IF fields[i].is_oneof
               THEN [n \in 1..Len(Variants(fields[i].oneof_type)) |->
                        [group |-> fields[i].ident,
                         ident |-> Variants(fields[i].oneof_type)[n].ident,
                         json_name |-> Variants(fields[i].oneof_type)[n].json_name,
                         proto_name |-> Variants(fields[i].oneof_type)[n].proto_name]]
               ELSE <<>>])

MembersTable ==
    [KitchenSink |-> MembersIn(KitchenSink),
     TestAllTypesProto3 |-> MembersIn(TestAllTypesProto3)]

Members(ty) == MembersTable[ty]

\* The members a key names, by their JSON name or their protobuf name.
MembersOf(ty, key) ==
    {n \in 1..Len(Members(ty)) :
        key = Members(ty)[n].json_name \/ key = Members(ty)[n].proto_name}

\* The entries i and j name two distinct members of one group, not null.
TwoMembers(ty, a, i, j) ==
    /\ i < j
    /\ a[i].v.t # "null"
    /\ a[j].v.t # "null"
    /\ \E m \in MembersOf(ty, a[i].k), n \in MembersOf(ty, a[j].k) :
          m # n /\ Members(ty)[m].group = Members(ty)[n].group

\* C2 -- Oneof uniqueness: an object with two keys that match distinct
\* members of one oneof group, both with values other than null, fails to
\* decode, in either order of the keys, in either form of their names and
\* with any keys between them; the error is "multiple oneof fields set"
\* when no entry up to the second of the two fails on its own.
OneofUniqueness ==
    pc = "done" =>
        \A i, j \in 1..Len(encoded.v.a) :
            TwoMembers(vkind.ty, encoded.v.a, i, j) =>
                /\ ~outcome.ok
                /\ (\A k \in 1..j : ValidAlone(vkind.ty, encoded.v.a[k]))
                   => outcome.e = "multiple oneof fields set"

\* {"value": 7, "bogus": {...}, "name": "hi"} is refused.
OneofUniquenessWitness ==
    /\ pc = "done"
    /\ vkind.ty = "KitchenSink"
    /\ encoded = Ok(ObjectOf("KitchenSink", <<3, 9, 1>>))
    /\ ~outcome.ok
    /\ outcome.e = "multiple oneof fields set"

\* The entry names a member of a oneof and its value is null.
NullMember(ty, entry) == entry.v.t = "null" /\ MembersOf(ty, entry.k) # {}

\* The entry i is the one member of its group with a value, and every other
\* entry is a null member of that group.
OneMemberAmongNulls(ty, a, i) ==
    /\ a[i].v.t # "null"
    /\ ValidAlone(ty, a[i])
    /\ \E m \in MembersOf(ty, a[i].k) :
          \A k \in 1..Len(a) :
              k # i => /\ a[k].v.t = "null"
                       /\ \E n \in MembersOf(ty, a[k].k) :
                             Members(ty)[n].group = Members(ty)[m].group

\* C3 -- A key that matches a member of a oneof and whose value is null
\* contributes nothing: the object decodes to what it decodes to without
\* such keys (same value or same error), and an object of one member with a
\* value and null members of the same group, in any order, decodes to the
\* oneof that holds the member with the value.
NullOneofMember ==
    pc = "done" =>
        /\ SameResult(outcome,
                      Decode(vkind.ty, SelectSeq(encoded.v.a,
                                                LAMBDA e : ~NullMember(vkind.ty, e))))
        /\ \A i \in 1..Len(encoded.v.a) :
              OneMemberAmongNulls(vkind.ty, encoded.v.a, i) =>
                  /\ outcome.ok
                  /\ \E m \in MembersOf(vkind.ty, encoded.v.a[i].k) :
                        /\ IsSome(outcome.v[Members(vkind.ty)[m].group])
                        /\ MemberOf(Unwrap(outcome.v[Members(vkind.ty)[m].group]))
                              = Members(vkind.ty)[m].ident
                        /\ outcome.v = Decode(vkind.ty, <<encoded.v.a[i]>>).v

\* {"name": null, "value": 7, "value": null} decodes to the member Value(7).
NullOneofMemberWitness ==
    /\ pc = "done"
    /\ vkind.ty = "KitchenSink"
    /\ encoded = Ok(ObjectOf("KitchenSink", <<2, 3, 4>>))
    /\ outcome.ok
    /\ outcome.v[<<"c", "h", "o", "i", "c", "e">>] = Some(OneofValue(<<"V", "a", "l", "u", "e">>, WOf(7)))

\* The key matches no field and no member of a oneof, in either form.
UnknownKey(ty, key) ==
    /\ MembersOf(ty, key) = {}
    /\ \A i \in 1..Len(Fields(ty)) :
          Fields(ty)[i].is_oneof
          \/ (key # Fields(ty)[i].json_name /\ key # Fields(ty)[i].proto_name)

\* Entries to insert: keys unknown to the message types and keys they know,
\* with values of every JSON type.
InsertedEntries ==
    <<Entry(<<"b", "o", "g", "u", "s">>, JNull),
      Entry(<<"b", "o", "g", "u", "s">>, JBool(TRUE)),
      Entry(<<"c", "h", "o", "i", "c", "e">>, JUInt(WOf(7))),
      Entry(<<"N", "a", "m", "e">>, JFloat(FDec(15, -1))),
      Entry(<<>>, JStr(<<"x">>)),
      Entry(<<"o", "n", "e", "o", "f", "_", "f", "i", "e", "l", "d">>, JArr(<<JNull, JStr(<<"x">>)>>)),
      Entry(<<"i", "n", "t", "3", "2", "f", "i", "e", "l", "d">>, JObj(<<Entry(<<"n", "a", "m", "e">>, JStr(<<"h", "i">>))>>)),
      Entry(<<"n", "a", "m", "e">>, JStr(<<"h", "i">>)),
      Entry(<<"o", "p", "t", "i", "o", "n", "a", "l", "I", "n", "t", "3", "2">>, JStr(<<"x">>))>>

InsertAt(a, p, entry) == SubSeq(a, 1, p) \o <<entry>> \o SubSeq(a, p + 1, Len(a))

\* C4 -- Unknown fields are ignored: when an object decodes to a message,
\* the object with one more key that matches no field and no member of a
\* oneof, of any JSON value and at any position, decodes to the same message.
UnknownFieldsIgnored ==
    (pc = "done" /\ outcome.ok) =>
        \A p \in 0..Len(encoded.v.a), n \in 1..Len(InsertedEntries) :
            UnknownKey(vkind.ty, InsertedEntries[n].k) =>
                SameResult(outcome,
                           Decode(vkind.ty, InsertAt(encoded.v.a, p, InsertedEntries[n])))

\* {"int32Field": 5, "bogus": {...}, "string_field": "t"} decodes to the
\* message of the two fields.
UnknownFieldsIgnoredWitness ==
    /\ pc = "done"
    /\ vkind.ty = "KitchenSink"
    /\ encoded = Ok(ObjectOf("KitchenSink", <<5, 9, 7>>))
    /\ outcome.ok
    /\ outcome.v = [DefaultMessage("KitchenSink") EXCEPT
                       ![<<"i", "n", "t", "3", "2", "_", "f", "i", "e", "l", "d">>] = WOf(5), ![<<"s", "t", "r", "i", "n", "g", "_", "f", "i", "e", "l", "d">>] = <<"t">>]

\* The pairs <<JSON name, protobuf name>> of the members of the oneofs and
\* of the other fields of a message type.
NamePairsIn(fields, members) ==
    [n \in 1..Len(members) |-> <<members[n].json_name, members[n].proto_name>>]
    \o Concat([i \in 1..Len(fields) |->
                  IF fields[i].is_oneof THEN <<>>
                  ELSE <<<<fields[i].json_name, fields[i].proto_name>>>>])

NamePairsTable ==
    [KitchenSink |-> NamePairsIn(KitchenSink, MembersIn(KitchenSink)),
     TestAllTypesProto3 |-> NamePairsIn(TestAllTypesProto3, MembersIn(TestAllTypesProto3))]

NamePairs(ty) == NamePairsTable[ty]

\* The key in the form asked for (1: JSON name, 2: protobuf name) when it is
\* a name of a field or a member, the key itself otherwise.
Rename(ty, key, form) ==
    IF \E n \in 1..Len(NamePairs(ty)) : key \in {NamePairs(ty)[n][1], NamePairs(ty)[n][2]}
    THEN First(NamePairs(ty), LAMBDA pair : key \in {pair[1], pair[2]})[form]
    ELSE key

Renamed(ty, a, form) == [i \in 1..Len(a) |-> Entry(Rename(ty, a[i].k, form), a[i].v)]

\* C5 -- Name tolerance: an object decodes to the same result (the same
\* value, or a failure in both cases) with every key written as the
\* protobuf name as with every key written as the JSON name, for fields and
\* for members of a oneof; the object as given decodes to that result too.
NameTolerance ==
    pc = "done" =>
        /\ SameResult(Decode(vkind.ty, Renamed(vkind.ty, encoded.v.a, 2)),
                      Decode(vkind.ty, Renamed(vkind.ty, encoded.v.a, 1)))
        /\ SameResult(outcome, Decode(vkind.ty, Renamed(vkind.ty, encoded.v.a, 1)))

\* {"int32Field": 5, "string_field": "t", "name": "hi"}, with keys of both
\* forms, decodes.
NameToleranceWitness ==
    /\ pc = "done"
    /\ vkind.ty = "KitchenSink"
    /\ encoded = Ok(ObjectOf("KitchenSink", <<5, 7, 1>>))
    /\ outcome.ok
    /\ outcome.v[<<"i", "n", "t", "3", "2", "_", "f", "i", "e", "l", "d">>] = WOf(5)
    /\ outcome.v[<<"s", "t", "r", "i", "n", "g", "_", "f", "i", "e", "l", "d">>] = <<"t">>
    /\ Renamed("KitchenSink", encoded.v.a, 2)[1].k = <<"i", "n", "t", "3", "2", "_", "f", "i", "e", "l", "d">>
    /\ Renamed("KitchenSink", encoded.v.a, 1)[2].k = <<"s", "t", "r", "i", "n", "g", "F", "i", "e", "l", "d">>


(***************************************************************************)
(* The conformance testee (handle_message): a JSON payload is parsed and   *)
(* the value parsed is serialized back; and the serialization of values    *)
(* that need not respect the invariants of the data model.                 *)
(***************************************************************************)
IntKinds == {"I32", "U32", "I64", "U64"}

\* Integers of at most 9 significant digits within the range of the kind.
IntInputs(k) ==
    {WZero, WOf(1), WOf(42), WOf(1000000), WOf(123456789)}
        \cup (IF k \in {"I32", "I64"} THEN {WOf(-1), WOf(-42), WOf(-1000000)} ELSE {})

\* The JSON token of an integer: serde_json gives visit_u64 a token without
\* a sign and visit_i64 a negative one.
IntToken(n) == IF n.neg THEN JNInt(n) ELSE JUInt(n)

\* n in exponent form: 42 as "4.2e1".
ExponentForm(n) ==
    LET d == WToString(WAbs(n))
    IN  (IF n.neg THEN <<"-">> ELSE <<>>)
            \o (IF Len(d) = 1 THEN d ELSE <<d[1], ".">> \o Tail(d))
            \o <<"e">> \o NatDigits(Len(d) - 1)

\* The four JSON forms of the integer n.
IntForms(n) ==
    {IntToken(n), JStr(WToString(n)), JFloat(WideToFloat(n)), JStr(ExponentForm(n))}

\* Strings of 2^53 and of the integers next to it (the float parse that
\* i32_from_str falls back to is modelled up to 9 significant digits, so an
\* i32 is not given them).
Pow53Strings(k) ==
    IF k = "I32" THEN {}
    ELSE {JStr(WToString(MAX_SAFE_I64)), JStr(WToString(Pow53Plus1)),
          JStr(WToString(WNeg(Pow53Plus1)))}

\* Other inputs of an integer field: around 2^53, out of range, not integral.
IntOthers ==
    {IntToken(MAX_SAFE_I64), IntToken(Pow53Plus1),
     IntToken(WNeg(MAX_SAFE_I64)), IntToken(WNeg(Pow53Plus1)),
     IntToken(I64_MAX), IntToken(U64_MAX), IntToken(U32_MAX), IntToken(I32_MIN),
     JFloat(FDec(15, -1)), JStr(<<"1", ".", "5">>), JStr(<<"1", "e", "4", "0", "0">>), JStr(<<"a", "b", "c">>), JStr(<<>>),
     JFloat(FDec(1, 19)), JNull, JBool(TRUE)}

IntTokens(k) ==
    UNION {IntForms(n) : n \in IntInputs(k)} \cup Pow53Strings(k) \cup IntOthers

EnumPaths == {"Status", "NullValue"}

\* Enum numbers: the known variants, unknown numbers, the ends of i32.
EnumNumbers == {WZero, WOf(1), WOf(2), WOf(7), WOf(-3), I32_MAX, I32_MIN}

EnumTokens ==
    {IntToken(n) : n \in EnumNumbers}
        \cup {IntToken(U32_MAX), IntToken(WSub(I32_MIN, WOf(1))),
              JStr(<<"U", "N", "K", "N", "O", "W", "N">>), JStr(<<"A", "C", "T", "I", "V", "E">>), JStr(<<"I", "N", "A", "C", "T", "I", "V", "E">>), JStr(<<"N", "U", "L", "L", "_", "V", "A", "L", "U", "E">>),
              JStr(<<"B", "O", "G", "U", "S">>), JStr(<<"a", "c", "t", "i", "v", "e">>), JStr(<<>>), JStr(<<"0">>), JStr(<<"1">>), JStr(<<"7">>),
              JNull, JBool(TRUE), JFloat(FDec(1, 0))}

\* The entries of the JSON objects parsed as a WktFields.
WktEntries ==
    <<Entry(<<"o", "p", "t", "i", "o", "n", "a", "l", "N", "u", "l", "l", "V", "a", "l", "u", "e">>, JNull),
      Entry(<<"o", "p", "t", "i", "o", "n", "a", "l", "N", "u", "l", "l", "V", "a", "l", "u", "e">>, JStr(<<"N", "U", "L", "L", "_", "V", "A", "L", "U", "E">>)),
      Entry(<<"o", "p", "t", "i", "o", "n", "a", "l", "_", "n", "u", "l", "l", "_", "v", "a", "l", "u", "e">>, IntToken(WZero)),
      Entry(<<"o", "p", "t", "i", "o", "n", "a", "l", "N", "u", "l", "l", "V", "a", "l", "u", "e">>, IntToken(WOf(1))),
      Entry(<<"o", "p", "t", "i", "o", "n", "a", "l", "N", "u", "l", "l", "V", "a", "l", "u", "e">>, JStr(<<"B", "O", "G", "U", "S">>)),
      Entry(<<"o", "p", "t", "i", "o", "n", "a", "l", "V", "a", "l", "u", "e">>, JNull),
      Entry(<<"o", "p", "t", "i", "o", "n", "a", "l", "_", "v", "a", "l", "u", "e">>, IntToken(WOf(1))),
      Entry(<<"o", "p", "t", "i", "o", "n", "a", "l", "V", "a", "l", "u", "e">>, JStr(<<"x">>)),
      Entry(<<"r", "e", "p", "e", "a", "t", "e", "d", "V", "a", "l", "u", "e">>, JArr(<<JNull, JStr(<<"x">>)>>)),
      Entry(<<"r", "e", "p", "e", "a", "t", "e", "d", "V", "a", "l", "u", "e">>, JNull),
      Entry(<<"m", "a", "p", "V", "a", "l", "u", "e">>, JObj(<<Entry(<<"k">>, JNull)>>)),
      Entry(<<"m", "a", "p", "V", "a", "l", "u", "e">>, JNull),
      Entry(<<"o", "p", "t", "i", "o", "n", "a", "l", "S", "t", "r", "u", "c", "t">>,
            JObj(<<Entry(<<"a">>, JNull), Entry(<<"b">>, JArr(<<JNull, JBool(TRUE)>>))>>)),
      Entry(<<"o", "p", "t", "i", "o", "n", "a", "l", "S", "t", "r", "u", "c", "t">>, JNull),
      Entry(<<"v", "a", "l", "u", "e", "M", "e", "m", "b", "e", "r">>, JNull),
      Entry(<<"v", "a", "l", "u", "e", "_", "m", "e", "m", "b", "e", "r">>, JBool(TRUE)),
      Entry(<<"t", "e", "x", "t", "M", "e", "m", "b", "e", "r">>, JNull),
      Entry(<<"t", "e", "x", "t", "M", "e", "m", "b", "e", "r">>, JStr(<<"t">>)),
      Entry(<<"o", "p", "t", "i", "o", "n", "a", "l", "S", "t", "r", "i", "n", "g">>, JNull),
      Entry(<<"o", "p", "t", "i", "o", "n", "a", "l", "I", "n", "t", "3", "2">>, JNull),
      Entry(<<"o", "p", "t", "i", "o", "n", "a", "l", "I", "n", "t", "3", "2">>, IntToken(WOf(5))),
      Entry(<<"r", "e", "p", "e", "a", "t", "e", "d", "I", "n", "t", "3", "2">>, JNull),
      Entry(<<"o", "p", "t", "i", "o", "n", "a", "l", "T", "i", "m", "e", "s", "t", "a", "m", "p">>, JNull)>>

\* The most keys of an object parsed as a WktFields.
MaxWktKeys == 2

WktObject(pick) == JObj([i \in 1..Len(pick) |-> WktEntries[pick[i]]])

WktPicks == UNION {[1..n -> 1..Len(WktEntries)] : n \in 1..MaxWktKeys}

\* Entries that assign an optional and a repeated field of a WktFields, and
\* the objects where an entry above follows one of them.
AssigningEntries ==
    <<Entry(<<"o", "p", "t", "i", "o", "n", "a", "l", "_", "s", "t", "r", "i", "n", "g">>, JStr(<<"s">>)),
      Entry(<<"r", "e", "p", "e", "a", "t", "e", "d", "I", "n", "t", "3", "2">>, JArr(<<IntToken(WOf(1))>>))>>

AssignedObjects ==
    {JObj(<<AssigningEntries[i], WktEntries[n]>>) :
        i \in 1..Len(AssigningEntries), n \in 1..Len(WktEntries)}

\* Paths of a FieldMask: segments that convert to lowerCamelCase and back,
\* segments that do not, and empty paths and segments.
FieldMaskPaths ==
    {<<"f", "o", "o", "_", "b", "a", "r">>, <<"f", "o", "o">>, <<"a", "_", "b", "_", "c">>, <<"u", "s", "e", "r", ".", "d", "i", "s", "p", "l", "a", "y", "_", "n", "a", "m", "e">>, <<"f", "o", "o", "_", "1">>,
     <<"f", "o", "o", "B", "a", "r", "_", "b", "a", "z">>, <<"f", "o", "o", "B", "a", "r">>, <<"F", "o", "o">>, <<"f", "o", "o", "_", "_", "b", "a", "r">>, <<"f", "o", "o", "_">>, <<"_", "f", "o", "o">>, <<"a", ".", "b", "_", "C">>,
     <<>>, <<"a", ".", ".", "b">>, <<"a", ".">>}

\* The most paths of a FieldMask.
MaxPaths == 2

FieldMaskValues ==
    {FieldMask(paths) : paths \in UNION {[1..n -> FieldMaskPaths] : n \in 0..MaxPaths}}

\* Masks whose paths hold "," and other characters that are not letters.
PunctuatedMasks ==
    {FieldMask(<<<<"a", ",", "b">>>>), FieldMask(<<<<",">>>>), FieldMask(<<<<"x", "-", "y", ".", "z", "2">>>>),
     FieldMask(<<<<"a", " ", "b">>>>), FieldMask(<<<<"f", "o", "o", "_", "b", "a", "r">>, <<"a", ",", "b">>>>)}

FieldMaskTokens ==
    {JStr(<<>>), JStr(<<"f", "o", "o", "B", "a", "r">>), JStr(<<"f", "o", "o">>), JStr(<<"u", "s", "e", "r", ".", "d", "i", "s", "p", "l", "a", "y", "N", "a", "m", "e", ",", "p", "h", "o", "t", "o">>),
     JStr(<<"f", "o", "o", "_", "b", "a", "r">>), JStr(<<"a", ",", "b", "_", "c">>), JStr(<<"a", ".", "b", "_", "c">>), JStr(<<"_">>), JStr(<<"f", "o", "o", "B", "a", "r", ",">>),
     JStr(<<"a", ",", ",", "b">>), JStr(<<"a", ".", ".", "b">>), JStr(<<"F", "o", "o", "B", "a", "r">>), JNull, IntToken(WOf(1)),
     JArr(<<JStr(<<"f", "o", "o">>)>>)}

\* The first and the last instant of the years 0001 to 9999.
FirstInstant == <<"0", "0", "0", "1", "-", "0", "1", "-", "0", "1", "T", "0", "0", ":", "0", "0", ":", "0", "0", "Z">>

LastInstant == <<"9", "9", "9", "9", "-", "1", "2", "-", "3", "1", "T", "2", "3", ":", "5", "9", ":", "5", "9", ".", "9", "9", "9", "9", "9", "9", "9", "9", "9", "Z">>

\* Instants before the first and after the last, written with an offset.
OutsideInstants ==
    {<<"0", "0", "0", "1", "-", "0", "1", "-", "0", "1", "T", "0", "0", ":", "0", "0", ":", "0", "0", "+", "0", "0", ":", "0", "1">>, <<"0", "0", "0", "1", "-", "0", "1", "-", "0", "1", "T", "0", "0", ":", "5", "9", ":", "5", "9", "+", "0", "1", ":", "0", "0">>,
     <<"9", "9", "9", "9", "-", "1", "2", "-", "3", "1", "T", "2", "3", ":", "5", "9", ":", "5", "9", "-", "0", "0", ":", "0", "1">>, <<"9", "9", "9", "9", "-", "1", "2", "-", "3", "1", "T", "2", "3", ":", "0", "0", ":", "0", "0", ".", "5", "-", "0", "1", ":", "0", "0">>}

TimestampTexts ==
    {FirstInstant, LastInstant, <<"1", "9", "7", "0", "-", "0", "1", "-", "0", "1", "T", "0", "0", ":", "0", "0", ":", "0", "0", "Z">>, <<"1", "9", "9", "9", "-", "1", "2", "-", "3", "1", "T", "2", "3", ":", "5", "9", ":", "5", "9", ".", "5", "Z">>,
     <<"2", "0", "2", "1", "-", "0", "6", "-", "1", "5", "T", "1", "2", ":", "3", "0", ":", "4", "5", ".", "1", "2", "3", "+", "0", "5", ":", "3", "0">>, <<"0", "0", "0", "1", "-", "0", "1", "-", "0", "1", "T", "0", "1", ":", "0", "0", ":", "0", "0", "+", "0", "1", ":", "0", "0">>,
     <<"9", "9", "9", "9", "-", "1", "2", "-", "3", "1", "T", "2", "2", ":", "5", "9", ":", "5", "9", ".", "9", "9", "9", "9", "9", "9", "9", "9", "9", "-", "0", "1", ":", "0", "0">>,
     <<"1", "9", "7", "0", "-", "0", "1", "-", "0", "1", "t", "0", "0", ":", "0", "0", ":", "0", "0", "Z">>, <<"1", "9", "7", "0", "-", "0", "1", "-", "0", "1", "T", "0", "0", ":", "0", "0", ":", "0", "0", "z">>, <<"1", "9", "7", "0", "-", "0", "1", "-", "0", "1", "t", "0", "0", ":", "0", "0", ":", "0", "0", "z">>,
     <<"1", "9", "7", "0", "-", "0", "1", "-", "0", "1", " ", "0", "0", ":", "0", "0", ":", "0", "0", "Z">>, <<"2", "0", "1", "6", "-", "1", "2", "-", "3", "1", "T", "2", "3", ":", "5", "9", ":", "6", "0", "Z">>, <<"1", "9", "7", "2", "-", "0", "6", "-", "3", "0", "T", "2", "3", ":", "5", "9", ":", "6", "0", ".", "5", "Z">>,
     <<"2", "0", "2", "0", "-", "0", "2", "-", "3", "0", "T", "0", "0", ":", "0", "0", ":", "0", "0", "Z">>, <<"2", "0", "2", "0", "-", "0", "2", "-", "2", "9", "T", "2", "4", ":", "0", "0", ":", "0", "0", "Z">>, <<"1", "9", "7", "0", "-", "0", "1", "-", "0", "1", "T", "0", "0", ":", "0", "0", ":", "0", "0">>,
     <<"1", "9", "7", "0", "-", "0", "1", "-", "0", "1", "T", "0", "0", ":", "0", "0", ":", "0", "0", ".", "Z">>, <<"T">>, <<>>}
        \cup OutsideInstants

TimestampTokens ==
    {JStr(text) : text \in TimestampTexts} \cup {JNull, IntToken(WZero), JFloat(FDec(15, -1))}

DurationTexts ==
    {<<"0", "s">>, <<"-", "1", ".", "5", "s">>, <<"3", "1", "5", "5", "7", "6", "0", "0", "0", "0", "0", "0", "s">>, <<"-", "3", "1", "5", "5", "7", "6", "0", "0", "0", "0", "0", "0", "s">>, <<"1", ".", "1", "2", "3", "4", "5", "6", "7", "8", "9", "s">>, <<"-", "0", ".", "5", "s">>,
     <<"0", ".", "0", "0", "0", "0", "0", "0", "0", "0", "1", "s">>, <<"3", ".", "0", "0", "0", "0", "0", "1", "s">>, <<"1", "2", "s">>,
     <<"1", ".", "5">>, <<"1", ".", "s">>, <<"-", "-", "1", "s">>, <<"+", "5", "s">>, <<"-", "+", "5", "s">>, <<"1", ".", "0", "0", "0", "0", "0", "0", "0", "0", "0", "1", "s">>, <<"1", ".", "+", "5", "s">>, <<"-", "-", "1", ".", "5", "s">>,
     <<"3", "1", "5", "5", "7", "6", "0", "0", "0", "0", "0", "1", "s">>, <<"-", "3", "1", "5", "5", "7", "6", "0", "0", "0", "0", "0", "1", "s">>, <<"s">>, <<>>, <<"-", "s">>, <<".", "5", "s">>, <<"-", ".", "5", "s">>, <<"1", ".", "5", ".", "5", "s">>,
     <<"1", " ", "s">>, <<"1", "S">>, <<"a", "b", "c">>, <<"1", ".", "5", "s", "s">>, <<"1", "e", "3", "s">>}

DurationTokens ==
    {JStr(text) : text \in DurationTexts} \cup {JNull, IntToken(WOf(1)), JFloat(FDec(15, -1))}

\* Durations to serialize: those of DurationValues, and others out of range.
CodecDurations ==
    DurationValues
        \cup {Duration(WSub(MIN_DURATION_SECONDS, WOf(1)), 0),
              Duration(WZero, -NanosPerSecond), Duration(WOf(1), NanosPerSecond),
              Duration(WOf(-1), -NanosPerSecond), Duration(I64_MAX, 0), Duration(I64_MIN, 0),
              Duration(WZero, 2147483647), Duration(WZero, -2147483647 - 1)}

\* Values to serialize.  The leaves: a Value of each kind, one whose kind is
\* unset, and numbers that are not finite.
LeafValues ==
    {Value(None), Value(Some(NullValue(0))), Value(Some(NumberValue(FDec(15, -1)))),
     Value(Some(NumberValue(FNaN))), Value(Some(NumberValue(FInf))),
     Value(Some(NumberValue(FNegInf))), Value(Some(StringValue(<<"x">>))),
     Value(Some(BoolValue(TRUE)))}

\* The lists of at most two of the values vs, and the structs of at most
\* two fields holding them.
ListsOf(vs) ==
    {Value(Some(ListValue(values))) : values \in UNION {[1..n -> vs] : n \in 0..2}}

StructsOf(vs) ==
    {Value(Some(StructValue(fields))) :
        fields \in UNION {[keys -> vs] : keys \in SUBSET {<<"a">>, <<"b">>}}}

\* The lists and the structs of one value of vs.
NestOf(vs) ==
    {Value(Some(ListValue(<<v>>))) : v \in vs}
        \cup {Value(Some(StructValue(MapInsert(EmptyMap, <<"a">>, v)))) : v \in vs}

\* Values of nesting depth 0 to 3.
ValueValues ==
    LET depth1 == ListsOf(LeafValues) \cup StructsOf(LeafValues)
        depth2 == NestOf(depth1)
    IN  LeafValues \cup depth1 \cup depth2 \cup NestOf(NestOf(NestOf(LeafValues)))

\* Any values to serialize: the default, and ones naming a Duration and a
\* message that does not exist.
AnyValues ==
    {ProstAny(<<>>, <<>>),
     ProstAny(<<"t", "y", "p", "e", ".", "g", "o", "o", "g", "l", "e", "a", "p", "i", "s", ".", "c", "o", "m", "/", "g", "o", "o", "g", "l", "e", ".", "p", "r", "o", "t", "o", "b", "u", "f", ".", "D", "u", "r", "a", "t", "i", "o", "n">>, <<8, 1>>),
     ProstAny(<<"t", "y", "p", "e", ".", "g", "o", "o", "g", "l", "e", "a", "p", "i", "s", ".", "c", "o", "m", "/", "g", "o", "o", "g", "l", "e", ".", "p", "r", "o", "t", "o", "b", "u", "f", ".", "D", "u", "r", "a", "t", "i", "o", "n">>, <<>>),
     ProstAny(<<"e", "x", "a", "m", "p", "l", "e", ".", "c", "o", "m", "/", "B", "o", "g", "u", "s">>, <<255>>)}

\* JSON given for an Any: its canonical form, and JSON of every other type.
AnyTokens ==
    {JObj(<<Entry(<<"@", "t", "y", "p", "e">>, JStr(<<"t", "y", "p", "e", ".", "g", "o", "o", "g", "l", "e", "a", "p", "i", "s", ".", "c", "o", "m", "/", "g", "o", "o", "g", "l", "e", ".", "p", "r", "o", "t", "o", "b", "u", "f", ".", "D", "u", "r", "a", "t", "i", "o", "n">>)),
            Entry(<<"v", "a", "l", "u", "e">>, JStr(<<"1", "s">>))>>),
     JObj(<<Entry(<<"@", "t", "y", "p", "e">>, JStr(<<"e", "x", "a", "m", "p", "l", "e", ".", "c", "o", "m", "/", "B", "o", "g", "u", "s">>))>>),
     JObj(<<>>), JNull, JStr(<<>>), JStr(<<"x">>), IntToken(WZero), JFloat(FDec(15, -1)),
     JBool(FALSE), JArr(<<>>)}

\* Byte strings to serialize: all those of at most three of five bytes, and
\* longer ones.
BytesValues ==
    UNION {[1..n -> {0, 1, 2, 128, 255}] : n \in 0..3}
        \cup {<<0, 1, 2, 255>>, <<255, 255, 255, 255, 255>>, <<104, 101, 108, 108, 111, 33>>,
              <<251, 239, 190, 0, 16, 131, 16>>}

\* 2^24, the largest magnitude up to which every integer is an f32.
Pow24 == WOf(16777216)

\* Integer tokens given for an f32: small ones, those next to 2^24 and to
\* -2^24, and the ends of the ranges of i64 and u64.
F32Integers ==
    {WZero, WOf(1), WOf(-1), WOf(42), WOf(-1000000), WSub(Pow24, WOf(1)), Pow24,
     WAdd(Pow24, WOf(1)), WNeg(Pow24), WSub(WNeg(Pow24), WOf(1)), WAdd(WNeg(Pow24), WOf(1)),
     I32_MAX, I32_MIN, MAX_SAFE_I64, MIN_SAFE_I64, I64_MAX, WAdd(I64_MIN, WOf(1)), I64_MIN,
     WAdd(I64_MAX, WOf(1)), U64_MAX}

\* Other JSON given for an f32.
F32Tokens ==
    {IntToken(n) : n \in F32Integers}
        \cup {JFloat(FDec(15, -1)), JFloat(FDec(16777216, 0)), JStr(<<"1", ".", "5">>), JStr(<<"1", "6", "7", "7", "7", "2", "1", "7">>),
              JStr(<<"a", "b", "c">>), JNull, JBool(TRUE)}

\* Keys of each kind: the ends of the ranges of the integers, and strings
\* that read as keys of the other kinds.
MapKeys(key_kind) ==
    CASE key_kind = "String" -> {<<>>, <<"a">>, <<"t", "r", "u", "e">>, <<"+", "5">>, <<"a", " ", "b">>}
      [] key_kind = "Bool" -> {TRUE, FALSE}
      [] key_kind = "I32" -> {WZero, WOf(7), WOf(-7), I32_MAX, I32_MIN}
      [] key_kind = "I64" -> {WZero, WOf(-1), Pow53Plus1, I64_MAX, I64_MIN}
      [] key_kind = "U32" -> {WZero, WOf(7), U32_MAX}
      [] key_kind = "U64" -> {WZero, WOf(7), WAdd(I64_MAX, WOf(1)), U64_MAX}

\* The messages with one map of one or two keys.
MapFieldsValues ==
    UNION {{With(DefaultMessage("MapFields"), MapFields[i].ident, [k \in keys |-> WOf(1)]) :
               keys \in {ks \in SUBSET MapKeys(MapFields[i].kind.key) : Cardinality(ks) \in {1, 2}}} :
           i \in 1..Len(MapFields)}

\* Texts given as the key of a map.
MapKeyTexts ==
    {<<"0">>, <<"7">>, <<"-", "7">>, <<"+", "7">>, <<"0", "7">>, <<"0", "0">>, <<"-", "0">>, <<"+", "0">>, <<"-">>, <<"+">>, <<>>, <<" ", "7">>, <<"7", " ">>, <<"7", ".", "0">>, <<"1", "e", "2">>,
     <<"0", "x", "1", "0">>, <<"a", "b", "c">>, <<"t", "r", "u", "e">>, <<"f", "a", "l", "s", "e">>, <<"T", "r", "u", "e">>, <<"T", "R", "U", "E">>, <<"1">>, <<"2", "1", "4", "7", "4", "8", "3", "6", "4", "7">>, <<"2", "1", "4", "7", "4", "8", "3", "6", "4", "8">>,
     <<"-", "2", "1", "4", "7", "4", "8", "3", "6", "4", "8">>, <<"-", "2", "1", "4", "7", "4", "8", "3", "6", "4", "9">>, <<"4", "2", "9", "4", "9", "6", "7", "2", "9", "5">>, <<"4", "2", "9", "4", "9", "6", "7", "2", "9", "6">>, <<"9", "2", "2", "3", "3", "7", "2", "0", "3", "6", "8", "5", "4", "7", "7", "5", "8", "0", "7">>,
     <<"9", "2", "2", "3", "3", "7", "2", "0", "3", "6", "8", "5", "4", "7", "7", "5", "8", "0", "8">>, <<"-", "9", "2", "2", "3", "3", "7", "2", "0", "3", "6", "8", "5", "4", "7", "7", "5", "8", "0", "8">>, <<"-", "9", "2", "2", "3", "3", "7", "2", "0", "3", "6", "8", "5", "4", "7", "7", "5", "8", "0", "9">>,
     <<"1", "8", "4", "4", "6", "7", "4", "4", "0", "7", "3", "7", "0", "9", "5", "5", "1", "6", "1", "5">>, <<"1", "8", "4", "4", "6", "7", "4", "4", "0", "7", "3", "7", "0", "9", "5", "5", "1", "6", "1", "6">>, <<"+", "1", "8", "4", "4", "6", "7", "4", "4", "0", "7", "3", "7", "0", "9", "5", "5", "1", "6", "1", "5">>}

\* The object {"<field>": {"<text>": 1}}.
MapObject(field, text) ==
    JObj(<<Entry(field.json_name, JObj(<<Entry(text, IntToken(WOf(1)))>>))>>)

MapFieldsTokens ==
    {MapObject(MapFields[i], text) : i \in 1..Len(MapFields), text \in MapKeyTexts}

CodecInit ==
    /\ NoFrames
    /\ hasher = FALSE
    /\ outcome = None
    /\ response = None
    /\ \/ /\ pc = "json"
          /\ original = None
          /\ \/ \E k \in IntKinds :
                   vkind = KindScalar(k) /\ encoded \in {Ok(t) : t \in IntTokens(k)}
             \/ \E path \in EnumPaths :
                   vkind = KindEnum(path) /\ encoded \in {Ok(t) : t \in EnumTokens}
             \/ /\ vkind = KindMessage("WktFields")
                /\ \/ \E pick \in WktPicks : encoded = Ok(WktObject(pick))
                   \/ encoded \in {Ok(t) : t \in AssignedObjects}
             \/ /\ vkind = KindMessage("FieldMask")
                /\ encoded \in {Ok(t) : t \in FieldMaskTokens}
             \/ vkind = KindTimestamp /\ encoded \in {Ok(t) : t \in TimestampTokens}
             \/ vkind = KindDuration /\ encoded \in {Ok(t) : t \in DurationTokens}
             \/ vkind = KindMessage("Any") /\ encoded \in {Ok(t) : t \in AnyTokens}
             \/ vkind = KindScalar("F32") /\ encoded \in {Ok(t) : t \in F32Tokens}
             \/ vkind = KindMessage("MapFields") /\ encoded \in {Ok(t) : t \in MapFieldsTokens}
       \/ /\ pc = "value"
          /\ encoded = None
          /\ \/ \E path \in EnumPaths :
                   vkind = KindEnum(path) /\ original \in EnumNumbers
             \/ /\ vkind = KindMessage("FieldMask")
                /\ original \in FieldMaskValues \cup PunctuatedMasks
             \/ vkind = KindDuration /\ original \in CodecDurations
             \/ vkind = KindMessage("Value") /\ original \in ValueValues
             \/ vkind = KindMessage("Any") /\ original \in AnyValues
             \/ vkind = KindBytes /\ original \in BytesValues
             \/ vkind = KindMessage("MapFields") /\ original \in MapFieldsValues

\* to_json(&message) of handle_message: serde_json::to_string of the value
\* that parse_json returned.
ToJson ==
    /\ pc = "done"
    /\ outcome.ok
    /\ response' = serialize_value_expr(vkind, outcome.v, hasher)
    /\ pc' = "back"
    /\ UNCHANGED <<vkind, hasher, original, encoded, outcome, stdin, nread, stdout>>

CodecNext == Serialize \/ Deserialize \/ ToJson

CodecSpec == CodecInit /\ [][CodecNext]_vars

(***************************************************************************)
(* Properties of the scalar codecs and of the well-known types (under      *)
(* CodecSpec).                                                             *)
(***************************************************************************)
\* The state is one of a JSON payload: there is no value it was written from.
FromJson == DOMAIN original = {}

\* The state is one where the JSON text `token` was given for a value of the
\* scalar kind k, and has been parsed.
ParsedScalar(k, token) ==
    /\ pc \in {"done", "back"}
    /\ FromJson
    /\ vkind.tag = "Scalar"
    /\ vkind.sk = k
    /\ encoded = Ok(token)

\* C11 -- Number format tolerance: for every integer kind (int32, uint32,
\* int64, uint64) and every integer n of the kind, the integer token n, the
\* string "n", the float token n.0 and the exponent-form string (42 as
\* "4.2e1") all decode to n.
NumberFormatTolerance ==
    \A k \in IntKinds : \A n \in IntInputs(k) : \A form \in IntForms(n) :
        ParsedScalar(k, form) => outcome = Ok(n)


\* C12 -- For an int64 field, 2^53 and 2^53+1 are both accepted when given as
\* JSON strings, and 2^53+1 given as a bare JSON number is rejected.
Int64SafeRange ==
    /\ ParsedScalar("I64", JStr(WToString(MAX_SAFE_I64))) => outcome = Ok(MAX_SAFE_I64)
    /\ ParsedScalar("I64", JStr(WToString(Pow53Plus1))) => outcome = Ok(Pow53Plus1)
    /\ ParsedScalar("I64", IntToken(Pow53Plus1)) => ~outcome.ok


\* The state is one where the number n of the enum `path` has been serialized.
SerializedEnum(path, n) ==
    /\ pc # "value"
    /\ ~FromJson
    /\ vkind.tag = "Enum"
    /\ vkind.path = path
    /\ original = n

\* The state is one where the JSON text `token` was given for a value of the
\* enum `path`, and has been parsed.
ParsedEnum(path, token) ==
    /\ pc \in {"done", "back"}
    /\ FromJson
    /\ vkind.tag = "Enum"
    /\ vkind.path = path
    /\ encoded = Ok(token)

KnownNumber(path, n) == \E i \in 1..Len(EnumVariants(path)) : WOf(EnumVariants(path)[i].number) = n

NameOf(path, n) ==
    EnumVariants(path)[CHOOSE i \in 1..Len(EnumVariants(path)) :
                           WOf(EnumVariants(path)[i].number) = n].name

KnownName(path, name) == \E i \in 1..Len(EnumVariants(path)) : EnumVariants(path)[i].name = name

\* An unknown number serializes as the raw integer; an unknown name does not
\* parse; an unknown number in the i32 range parses to itself and serializes
\* back as the same number.
OpenEnumUnknown ==
    \A path \in EnumPaths :
        /\ \A n \in EnumNumbers :
              ~KnownNumber(path, n) =>
                  /\ SerializedEnum(path, n) => encoded = Ok(IntToken(n))
                  /\ ParsedEnum(path, IntToken(n)) =>
                        /\ outcome = Ok(n)
                        /\ pc = "back" => response = Ok(IntToken(n))
        /\ \A token \in EnumTokens :
              (token.t = "string" /\ ~KnownName(path, token.s)) =>
                  (ParsedEnum(path, token) => ~outcome.ok)

\* C13 (as stated) -- Open-enum semantics: the number of a known variant
\* serializes as the variant's symbolic name, for every enum; with the
\* handling of unknown numbers and names of OpenEnumUnknown.
OpenEnum ==
    /\ \A path \in EnumPaths : \A n \in EnumNumbers :
          (KnownNumber(path, n) /\ SerializedEnum(path, n)) =>
              encoded = Ok(JStr(NameOf(path, n)))
    /\ OpenEnumUnknown

\* C13 -- Open-enum semantics: the number of a known variant serializes as
\* the variant's symbolic name, except NULL_VALUE of google.protobuf.NullValue,
\* which serializes as null; an unknown number serializes as the raw integer;
\* an unknown name does not parse; an unknown number in the i32 range parses
\* to itself and serializes back as the same number.
OpenEnumExceptNullValue ==
    /\ \A path \in EnumPaths : \A n \in EnumNumbers :
          (KnownNumber(path, n) /\ SerializedEnum(path, n)) =>
              IF path = "NullValue" THEN encoded = Ok(JNull)
              ELSE encoded = Ok(JStr(NameOf(path, n)))
    /\ OpenEnumUnknown

\* The unknown number 7 of Status has been parsed and serialized back as 7.
OpenEnumWitness ==
    /\ ParsedEnum("Status", IntToken(WOf(7)))
    /\ pc = "back"
    /\ outcome = Ok(WOf(7))
    /\ response = Ok(IntToken(WOf(7)))


\* C14 -- Enum deserialization accepts three input shapes: the symbolic name,
\* a JSON integer, and a JSON string holding an integer (such as "1"), which
\* decodes to that enum number.
EnumInputShapes ==
    \A path \in EnumPaths :
        /\ \A i \in 1..Len(EnumVariants(path)) :
              ParsedEnum(path, JStr(EnumVariants(path)[i].name)) =>
                  outcome = Ok(WOf(EnumVariants(path)[i].number))
        /\ \A n \in EnumNumbers :
              ParsedEnum(path, IntToken(n)) => outcome = Ok(n)
        /\ \A n \in EnumNumbers :
              ParsedEnum(path, JStr(WToString(n))) => outcome = Ok(n)


\* The state is one where the JSON object of the given entries has been
\* parsed as a message of the type ty.
ParsedObject(ty, entries) ==
    /\ pc \in {"done", "back"}
    /\ FromJson
    /\ vkind.tag = "Message"
    /\ vkind.ty = ty
    /\ encoded = Ok(JObj(entries))

\* The two names of the field `ident` of the message type ty.
KeysOf(ty, ident) == {FieldOf(ty, ident).json_name, FieldOf(ty, ident).proto_name}

NullValueInputs == {JNull, JStr(<<"N", "U", "L", "L", "_", "V", "A", "L", "U", "E">>), IntToken(WZero)}

\* C15 -- For a field of the NullValue enum, the JSON inputs null,
\* "NULL_VALUE" and 0 all decode successfully to the same value, the enum
\* number 0.
NullValueField ==
    \A key \in KeysOf("WktFields", <<"o", "p", "t", "i", "o", "n", "a", "l", "_", "n", "u", "l", "l", "_", "v", "a", "l", "u", "e">>) : \A token \in NullValueInputs :
        ParsedObject("WktFields", <<Entry(key, token)>>) =>
            /\ outcome.ok
            /\ outcome.v[<<"o", "p", "t", "i", "o", "n", "a", "l", "_", "n", "u", "l", "l", "_", "v", "a", "l", "u", "e">>] = WZero

\* The string "NULL_VALUE" has been parsed for the field, which holds 0.
NullValueFieldWitness ==
    /\ ParsedObject("WktFields", <<Entry(<<"o", "p", "t", "i", "o", "n", "a", "l", "N", "u", "l", "l", "V", "a", "l", "u", "e">>, JStr(<<"N", "U", "L", "L", "_", "V", "A", "L", "U", "E">>))>>)
    /\ outcome.ok
    /\ outcome.v[<<"o", "p", "t", "i", "o", "n", "a", "l", "_", "n", "u", "l", "l", "_", "v", "a", "l", "u", "e">>] = WZero


\* The Value that JSON null stands for: a present Value of kind NullValue.
NullOfValue == Value(Some(NullValue(0)))

\* The message a one-entry object decodes to, if it does.
OnlyEntry(ty, entry, P(_)) ==
    ParsedObject(ty, <<entry>>) => outcome.ok /\ P(outcome.v)

\* null for a Value is a present NullValue: as a singular field, as an
\* element of a repeated field, as a value of a map and of a Struct.
NullValueInFields ==
    /\ OnlyEntry("WktFields", Entry(<<"o", "p", "t", "i", "o", "n", "a", "l", "V", "a", "l", "u", "e">>, JNull),
                 LAMBDA m : m[<<"o", "p", "t", "i", "o", "n", "a", "l", "_", "v", "a", "l", "u", "e">>] = Some(NullOfValue))
    /\ OnlyEntry("WktFields", Entry(<<"r", "e", "p", "e", "a", "t", "e", "d", "V", "a", "l", "u", "e">>, JArr(<<JNull, JStr(<<"x">>)>>)),
                 LAMBDA m : m[<<"r", "e", "p", "e", "a", "t", "e", "d", "_", "v", "a", "l", "u", "e">>] = <<NullOfValue, Value(Some(StringValue(<<"x">>)))>>)
    /\ OnlyEntry("WktFields", Entry(<<"m", "a", "p", "V", "a", "l", "u", "e">>, JObj(<<Entry(<<"k">>, JNull)>>)),
                 LAMBDA m : m[<<"m", "a", "p", "_", "v", "a", "l", "u", "e">>] = MapInsert(EmptyMap, <<"k">>, NullOfValue))
    /\ OnlyEntry("WktFields",
                 Entry(<<"o", "p", "t", "i", "o", "n", "a", "l", "S", "t", "r", "u", "c", "t">>,
                       JObj(<<Entry(<<"a">>, JNull), Entry(<<"b">>, JArr(<<JNull, JBool(TRUE)>>))>>)),
                 LAMBDA m : /\ IsSome(m[<<"o", "p", "t", "i", "o", "n", "a", "l", "_", "s", "t", "r", "u", "c", "t">>])
                            /\ Unwrap(m[<<"o", "p", "t", "i", "o", "n", "a", "l", "_", "s", "t", "r", "u", "c", "t">>]).fields[<<"a">>] = NullOfValue
                            /\ Unwrap(m[<<"o", "p", "t", "i", "o", "n", "a", "l", "_", "s", "t", "r", "u", "c", "t">>]).fields[<<"b">>] =
                                  Value(Some(ListValue(<<NullOfValue, Value(Some(BoolValue(TRUE)))>>))))

\* The keys of WktFields whose value is not a Value.
OtherKeys ==
    {<<"o", "p", "t", "i", "o", "n", "a", "l", "N", "u", "l", "l", "V", "a", "l", "u", "e">>, <<"r", "e", "p", "e", "a", "t", "e", "d", "V", "a", "l", "u", "e">>, <<"m", "a", "p", "V", "a", "l", "u", "e">>, <<"o", "p", "t", "i", "o", "n", "a", "l", "S", "t", "r", "u", "c", "t">>, <<"t", "e", "x", "t", "M", "e", "m", "b", "e", "r">>,
     <<"o", "p", "t", "i", "o", "n", "a", "l", "S", "t", "r", "i", "n", "g">>, <<"o", "p", "t", "i", "o", "n", "a", "l", "I", "n", "t", "3", "2">>, <<"r", "e", "p", "e", "a", "t", "e", "d", "I", "n", "t", "3", "2">>, <<"o", "p", "t", "i", "o", "n", "a", "l", "T", "i", "m", "e", "s", "t", "a", "m", "p">>}

\* null for a field of any other type leaves the field absent.
NullIsAbsentElsewhere ==
    \A key \in OtherKeys :
        OnlyEntry("WktFields", Entry(key, JNull), LAMBDA m : m = DefaultMessage("WktFields"))

\* C16 -- JSON null as the value of a field of type google.protobuf.Value
\* decodes to a present Value of kind NullValue, wherever a Value can appear:
\* singular field, repeated element, map or Struct value, and oneof member;
\* null means "absent" for every other field type.
NullIsValue ==
    /\ NullValueInFields
    /\ OnlyEntry("WktFields", Entry(<<"v", "a", "l", "u", "e", "M", "e", "m", "b", "e", "r">>, JNull),
                 LAMBDA m : m[<<"c", "h", "o", "i", "c", "e">>] = Some(OneofValue(<<"V", "a", "l", "u", "e", "M", "e", "m", "b", "e", "r">>, NullOfValue)))
    /\ NullIsAbsentElsewhere


\* The state is one where the value v of the well-known type ty has been
\* serialized.
SerializedWkt(ty, v) ==
    /\ pc # "value"
    /\ ~FromJson
    /\ vkind.tag = "Message"
    /\ vkind.ty = ty
    /\ original = v

\* The state is one where the JSON text `token` was given for a value of the
\* well-known type ty, and has been parsed.
ParsedWkt(ty, token) ==
    /\ pc \in {"done", "back"}
    /\ FromJson
    /\ vkind.tag = "Message"
    /\ vkind.ty = ty
    /\ encoded = Ok(token)

\* The segments of the paths of a FieldMask.
SegmentsOf(v) ==
    UNION {{Split(v.paths[i], ".")[k] : k \in 1..Len(Split(v.paths[i], "."))}
               : i \in 1..Len(v.paths)}

\* The segment converts to lowerCamelCase and back to itself.
RoundTrips(segment) == lower_camel_to_snake(snake_to_lower_camel(segment)) = segment

\* A path with each of its segments in lowerCamelCase.
CamelPath(path) ==
    Join([k \in 1..Len(Split(path, ".")) |-> snake_to_lower_camel(Split(path, ".")[k])],
         <<".">>)

\* C17 -- FieldMask serialization emits the paths comma-joined with each
\* dot-separated snake_case segment converted to lowerCamelCase ("foo_bar"
\* becomes "fooBar"), and fails, emitting nothing, for any segment whose
\* lowerCamelCase form does not convert back to the same segment (such as
\* "fooBar_baz"); FieldMask parsing fails for any input segment that contains
\* an underscore.
FieldMaskCodec ==
    /\ \A v \in FieldMaskValues :
          SerializedWkt("FieldMask", v) =>
              IF \E segment \in SegmentsOf(v) : ~RoundTrips(segment)
              THEN ~encoded.ok
              ELSE (\A segment \in SegmentsOf(v) : segment # <<>>) =>
                      encoded = Ok(JStr(Join([i \in 1..Len(v.paths) |-> CamelPath(v.paths[i])],
                                             <<",">>)))
    /\ SerializedWkt("FieldMask", FieldMask(<<<<"f", "o", "o", "_", "b", "a", "r">>>>)) => encoded = Ok(JStr(<<"f", "o", "o", "B", "a", "r">>))
    /\ SerializedWkt("FieldMask", FieldMask(<<<<"f", "o", "o", "_", "b", "a", "r">>, <<"u", "s", "e", "r", ".", "d", "i", "s", "p", "l", "a", "y", "_", "n", "a", "m", "e">>>>)) =>
          encoded = Ok(JStr(<<"f", "o", "o", "B", "a", "r", ",", "u", "s", "e", "r", ".", "d", "i", "s", "p", "l", "a", "y", "N", "a", "m", "e">>))
    /\ SerializedWkt("FieldMask", FieldMask(<<<<"f", "o", "o", "B", "a", "r", "_", "b", "a", "z">>>>)) => ~encoded.ok
    /\ \A token \in FieldMaskTokens :
          (token.t = "string" /\ Contains(token.s, "_")) =>
              (ParsedWkt("FieldMask", token) => ~outcome.ok)

\* A mask with the segment "fooBar_baz" after a path that converts has been
\* refused by the serializer.
FieldMaskCodecWitness ==
    /\ SerializedWkt("FieldMask", FieldMask(<<<<"f", "o", "o", "_", "b", "a", "r">>, <<"f", "o", "o", "B", "a", "r", "_", "b", "a", "z">>>>))
    /\ ~encoded.ok


\* The state is one where the JSON text `token` was given for a value of the
\* kind with the given tag (a Timestamp, a Duration), and has been parsed.
ParsedKind(tag, token) ==
    /\ pc \in {"done", "back"}
    /\ FromJson
    /\ vkind.tag = tag
    /\ encoded = Ok(token)

\* C18 -- Timestamp parsing rejects any input with a lowercase 't' or 'z' and
\* any instant outside 0001-01-01T00:00:00Z .. 9999-12-31T23:59:59.999999999Z,
\* and accepts both boundary instants; every Timestamp it returns has seconds
\* in [-62135596800, 253402300799] and nanos in [0, 10^9).
TimestampParsing ==
    /\ \A text \in TimestampTexts :
          (Contains(text, "t") \/ Contains(text, "z") \/ text \in OutsideInstants) =>
              (ParsedKind("Timestamp", JStr(text)) => ~outcome.ok)
    /\ ParsedKind("Timestamp", JStr(FirstInstant)) =>
          outcome = Ok(Timestamp(MIN_TIMESTAMP_SECONDS, 0))
    /\ ParsedKind("Timestamp", JStr(LastInstant)) =>
          outcome = Ok(Timestamp(MAX_TIMESTAMP_SECONDS, NanosPerSecond - 1))
    /\ (pc \in {"done", "back"} /\ FromJson /\ vkind.tag = "Timestamp" /\ outcome.ok) =>
          /\ WLe(MIN_TIMESTAMP_SECONDS, outcome.v.seconds)
          /\ WLe(outcome.v.seconds, MAX_TIMESTAMP_SECONDS)
          /\ outcome.v.nanos >= 0
          /\ outcome.v.nanos < NanosPerSecond


\* The parts of a duration text without its last character: the text between
\* an optional "-" and the first ".", and the text after that ".".
Unsigned(text) ==
    IF Len(text) >= 2 /\ text[1] = "-" THEN SubSeq(text, 2, Len(text) - 1) ELSE Front(text)

WholePart(text) ==
    IF FirstIndexOf(Unsigned(text), {"."}) = 0 THEN Unsigned(text)
    ELSE SubSeq(Unsigned(text), 1, FirstIndexOf(Unsigned(text), {"."}) - 1)

FractionPart(text) ==
    SubSeq(Unsigned(text), FirstIndexOf(Unsigned(text), {"."}) + 1, Len(Unsigned(text)))

\* ["-"] digit+ ["." digit{1,9}] "s"
DurationForm(text) ==
    /\ text # <<>>
    /\ Last(text) = "s"
    /\ WholePart(text) # <<>>
    /\ AllDigits(WholePart(text))
    /\ \/ FirstIndexOf(Unsigned(text), {"."}) = 0
       \/ /\ FractionPart(text) # <<>>
          /\ Len(FractionPart(text)) <= 9
          /\ AllDigits(FractionPart(text))

\* The whole seconds of a text of that form are at most 315576000000.
SecondsInRange(text) ==
    /\ Len(WholePart(text)) <= 12
    /\ WLe(WOfDigits(WholePart(text)), MAX_DURATION_SECONDS)

\* C19 -- Duration parsing accepts exactly the strings of the form: optional
\* single '-', one or more digits, optionally '.' and 1 to 9 digits, then
\* 's'.  It accepts "0s", "-1.5s" and "315576000000s", and rejects "1.5",
\* "1.s", a doubled sign, a '+' sign and more than 9 fraction digits.
DurationGrammar ==
    /\ \A text \in DurationTexts :
          ParsedKind("Duration", JStr(text)) =>
              IF DurationForm(text) THEN SecondsInRange(text) => outcome.ok
              ELSE ~outcome.ok
    /\ ParsedKind("Duration", JStr(<<"0", "s">>)) => outcome = Ok(Duration(WZero, 0))
    /\ ParsedKind("Duration", JStr(<<"-", "1", ".", "5", "s">>)) => outcome = Ok(Duration(WOf(-1), -500000000))
    /\ ParsedKind("Duration", JStr(<<"3", "1", "5", "5", "7", "6", "0", "0", "0", "0", "0", "0", "s">>)) =>
          outcome = Ok(Duration(MAX_DURATION_SECONDS, 0))


\* The state is one where the Duration v has been given to the serializer.
SerializedDuration(v) ==
    /\ pc # "value"
    /\ ~FromJson
    /\ vkind.tag = "Duration"
    /\ original = v

\* C20 -- Duration invariants in both directions: serializing a Duration
\* fails unless seconds is in [-315576000000, 315576000000], nanos is in
\* (-10^9, 10^9) and seconds and nanos do not have opposite signs (and
\* succeeds if they hold); every Duration the parser returns satisfies the
\* same three conditions.
DurationInvariants ==
    /\ \A v \in CodecDurations : SerializedDuration(v) => (encoded.ok <=> ValidDuration(v))
    /\ (pc \in {"done", "back"} /\ FromJson /\ vkind.tag = "Duration" /\ outcome.ok) =>
          ValidDuration(outcome.v)

\* A Duration of 1 s and -1 ns has been refused by the serializer.
DurationInvariantsWitness ==
    /\ SerializedDuration(Duration(WOf(1), -1))
    /\ ~encoded.ok


\* The state is one where the value v of the type ty was given to the
\* serializer, and has been serialized.
Serialized(ty, v) ==
    /\ pc \in {"json", "done", "back"}
    /\ ~FromJson
    /\ vkind = KindMessage(ty)
    /\ original = v

\* The kind of the value is set, to a null, a finite number, a string, a
\* bool, or a struct or a list of such values.
RECURSIVE KindIsSet(_)
KindIsSet(v) ==
    /\ IsSome(v.kind)
    /\ LET k == Unwrap(v.kind)
       IN  CASE k.tag = "NumberValue" -> k.n.cls = "finite"
             [] k.tag = "StructValue" -> \A key \in DOMAIN k.fields : KindIsSet(k.fields[key])
             [] k.tag = "ListValue" -> \A i \in 1..Len(k.values) : KindIsSet(k.values[i])
             [] OTHER -> TRUE

\* C21 -- Serializing a google.protobuf.Value succeeds only when its kind is
\* set to a null, a finite number, a string, a bool, a struct or a list: a
\* Value whose kind is unset and a NumberValue that is NaN or infinite fail
\* with an error, at any nesting depth inside a Struct or a ListValue.
ValueKindSet ==
    \A v \in ValueValues :
        Serialized("Value", v) =>
            /\ encoded.ok <=> KindIsSet(v)
            /\ ~KindIsSet(v) =>
                  encoded.e \in {"Value.kind is missing", "Value.number_value must be finite"}

\* A struct whose field holds a list of a number that is not finite has
\* failed to serialize.
ValueKindSetWitness ==
    \E v \in ValueValues :
        /\ Serialized("Value", v)
        /\ ~encoded.ok
        /\ IsSome(v.kind)
        /\ Unwrap(v.kind).tag = "StructValue"
        /\ \E key \in DOMAIN Unwrap(v.kind).fields :
              LET inner == Unwrap(v.kind).fields[key]
              IN  /\ IsSome(inner.kind)
                  /\ Unwrap(inner.kind).tag = "ListValue"
                  /\ \E i \in 1..Len(Unwrap(inner.kind).values) :
                        LET leaf == Unwrap(inner.kind).values[i]
                        IN  /\ IsSome(leaf.kind)
                            /\ Unwrap(leaf.kind).tag = "NumberValue"
                            /\ Unwrap(leaf.kind).n.cls # "finite"


SerializedBytes(v) ==
    /\ pc \in {"json", "done", "back"}
    /\ ~FromJson
    /\ vkind.tag = "Bytes"
    /\ original = v

\* The text is base64 of n bytes with the standard alphabet and padding:
\* four characters for every three bytes, begun or whole, of which the last
\* are as many "=" as bytes are missing from the last three.
IsPaddedBase64(text, n) ==
    LET pad == (3 - (n % 3)) % 3
    IN  /\ Len(text) = 4 * ((n + 2) \div 3)
        /\ \A i \in 1..Len(text) :
              IF i > Len(text) - pad THEN text[i] = "="
              ELSE \/ text[i] \in {"+", "/"}
                   \/ is_ascii_uppercase(text[i])
                   \/ is_ascii_lowercase(text[i])
                   \/ IsDigit(text[i])

\* C23 -- Every bytes value is serialized as a JSON string holding its base64
\* encoding with the standard alphabet (A-Z a-z 0-9 + /) and "=" padding
\* (the bytes 00 01 02 FF give "AAEC/w=="), and deserializing that string
\* returns the original byte sequence.
BytesBase64 ==
    \A v \in BytesValues :
        SerializedBytes(v) =>
            /\ encoded.ok
            /\ encoded.v.t = "string"
            /\ IsPaddedBase64(encoded.v.s, Len(v))
            /\ v = <<0, 1, 2, 255>> => encoded.v.s = <<"A", "A", "E", "C", "/", "w", "=", "=">>
            /\ pc \in {"done", "back"} => outcome = Ok(v)

\* The bytes 00 01 02 FF have been serialized and read back.
BytesBase64Witness ==
    /\ SerializedBytes(<<0, 1, 2, 255>>)
    /\ pc = "done"
    /\ outcome.ok


(***************************************************************************)
(* Properties of repeated serialization (under Spec).                      *)
(***************************************************************************)
\* The name under which the field of a message holding v is written: its
\* JSON name, or the JSON name of the active member of a oneof.
EmittedNames(field, v) ==
    IF ~field.is_oneof THEN {field.json_name}
    ELSE IF IsSome(v[field.ident])
    THEN {First(Variants(field.oneof_type),
                LAMBDA arm : arm.ident = MemberOf(Unwrap(v[field.ident]))).json_name}
    ELSE {}

\* The places in the declaration of the fields written under the key.
PositionsOf(ty, v, key) ==
    {i \in 1..Len(Fields(ty)) : key \in EmittedNames(Fields(ty)[i], v)}

\* The key is the protobuf name, and not the JSON name, of a field or of a
\* member of a oneof.
ProtoNameOnly(ty, key) ==
    \E i \in 1..Len(Fields(ty)) :
        LET field == Fields(ty)[i]
        IN  IF field.is_oneof
            THEN \E n \in 1..Len(Variants(field.oneof_type)) :
                    /\ Variants(field.oneof_type)[n].proto_name = key
                    /\ Variants(field.oneof_type)[n].json_name # key
            ELSE field.proto_name = key /\ field.json_name # key

SameMemberTwice(ty, a, i, j, m) ==
    /\ i < j
    /\ a[i].v.t # "null"
    /\ a[j].v.t # "null"
    /\ m \in MembersOf(ty, a[i].k)
    /\ m \in MembersOf(ty, a[j].k)
    /\ \A k \in 1..Len(a) :
          a[k].v.t # "null" =>
              \A n \in MembersOf(ty, a[k].k) :
                  Members(ty)[n].group = Members(ty)[m].group => n = m

\* C25 -- "multiple oneof fields set" is returned only when a oneof group is
\* already active with a different member: an object in which the key of one
\* member of a oneof occurs more than once with values other than null (and
\* no other member of the group has such a value) decodes, when each of its
\* entries decodes alone, and leaves the oneof active with that member.
RepeatedOneofMember ==
    pc = "done" =>
        /\ (~outcome.ok /\ outcome.e = "multiple oneof fields set") =>
              \E i, j \in 1..Len(encoded.v.a) : TwoMembers(vkind.ty, encoded.v.a, i, j)
        /\ \A i, j \in 1..Len(encoded.v.a) :
              \A m \in 1..Len(Members(vkind.ty)) :
                  (/\ SameMemberTwice(vkind.ty, encoded.v.a, i, j, m)
                   /\ \A k \in 1..Len(encoded.v.a) : ValidAlone(vkind.ty, encoded.v.a[k]))
                  => /\ outcome.ok
                     /\ IsSome(outcome.v[Members(vkind.ty)[m].group])
                     /\ MemberOf(Unwrap(outcome.v[Members(vkind.ty)[m].group]))
                           = Members(vkind.ty)[m].ident


\* null is a value, and not "absent", for the field: a Value or a NullValue.
NullIsAValueOf(field) ==
    \/ field.kind.tag = "Option" /\ is_prost_value_type(field.kind.inner)
    \/ field.kind.tag = "Enum" /\ is_null_value_enum(field.kind.path)

\* The object parsed ends with a null for the field, after entries that
\* decode.
EndsWithNullFor(ty, field) ==
    /\ pc \in {"done", "back"}
    /\ FromJson
    /\ vkind = KindMessage(ty)
    /\ Len(encoded.v.a) >= 1
    /\ Last(encoded.v.a).v.t = "null"
    /\ Last(encoded.v.a).k \in {field.json_name, field.proto_name}
    /\ Decode(ty, Front(encoded.v.a)).ok

\* C26 -- While deserializing a message, a key of a known non-oneof field
\* whose value is JSON null is treated as absent and leaves the field at the
\* value it held before the key was read (the default, or whatever an earlier
\* occurrence of the same key assigned), for the scalar, enum, optional,
\* repeated, map and message shapes (Value and NullValue excepted).
NullLeavesField ==
    \A i \in 1..Len(WktFields) :
        (/\ ~WktFields[i].is_oneof
         /\ ~NullIsAValueOf(WktFields[i])
         /\ EndsWithNullFor("WktFields", WktFields[i]))
        => /\ outcome.ok
           /\ outcome.v[WktFields[i].ident]
                 = Decode("WktFields", Front(encoded.v.a)).v[WktFields[i].ident]


\* C27 -- A JSON integer token given for a float (f32) field is accepted if
\* and only if it lies in [-2^24, +2^24]; every other integer in the signed
\* 64-bit range (down to and including -2^63) and in the unsigned 64-bit
\* range is rejected with an out-of-range error, without overflow in the
\* range check.
F32IntegerRange ==
    \A n \in F32Integers :
        ParsedScalar("F32", IntToken(n)) =>
            IF WLe(WNeg(Pow24), n) /\ WLe(n, Pow24)
            THEN outcome = Ok(WideToFloat(n))
            ELSE outcome = Err("integer out of range for f32")


\* The text is the base-10 form of an integer within [min, max]: digits
\* without a leading zero, after "-" for a negative integer.
IsDecimalWithin(text, min, max) ==
    LET neg == text # <<>> /\ Head(text) = "-"
        digits == IF neg THEN Tail(text) ELSE text
    IN  /\ digits # <<>>
        /\ AllDigits(digits)
        /\ digits[1] = "0" => (Len(digits) = 1 /\ ~neg)
        /\ Len(digits) <= 20
        /\ WLe(min, Wide(neg, MagOfDigits(digits)))
        /\ WLe(Wide(neg, MagOfDigits(digits)), max)

\* The text is the stringification of some key of the kind.
IsKeyText(key_kind, text) ==
    CASE key_kind = "String" -> TRUE
      [] key_kind = "Bool" -> text \in {<<"t", "r", "u", "e">>, <<"f", "a", "l", "s", "e">>}
      [] key_kind = "I32" -> IsDecimalWithin(text, I32_MIN, I32_MAX)
      [] key_kind = "I64" -> IsDecimalWithin(text, I64_MIN, I64_MAX)
      [] key_kind = "U32" -> IsDecimalWithin(text, WZero, U32_MAX)
      [] key_kind = "U64" -> IsDecimalWithin(text, WZero, U64_MAX)

\* The keys of a serialized map are the stringifications of its keys, and
\* parsing them gives the map back.
MapKeysReadBack ==
    \A v \in MapFieldsValues :
        Serialized("MapFields", v) =>
            /\ encoded.ok
            /\ \A n \in 1..Len(encoded.v.a) :
                  \E i \in 1..Len(MapFields) :
                      /\ encoded.v.a[n].k = MapFields[i].json_name
                      /\ \A m \in 1..Len(encoded.v.a[n].v.a) :
                            IsKeyText(MapFields[i].kind.key, encoded.v.a[n].v.a[m].k)
            /\ pc \in {"done", "back"} => outcome = Ok(v)

\* A map with a key that is not the stringification of a key fails to decode.
MapKeysStrict ==
    \A i \in 1..Len(MapFields) : \A text \in MapKeyTexts :
        ParsedObject("MapFields", MapObject(MapFields[i], text).a) =>
            (outcome.ok <=> IsKeyText(MapFields[i].kind.key, text))

\* C28 -- Map keys round-trip through their JSON string form: for every key
\* k of kind string, bool, int32, int64, uint32 or uint64, parsing the
\* serializer's stringification of k returns k (integers base-10, bool as
\* "true"/"false", string as itself), and a key string that is not the
\* stringification of some value of the key kind makes the map fail to
\* decode.
MapKeyRoundTrip == MapKeysReadBack /\ MapKeysStrict


\* C29 -- FieldMask round-trip: for every FieldMask whose serialization
\* succeeds, deserializing the serialized string yields a FieldMask with the
\* identical list of paths (same number of paths, same order, same text),
\* including the empty mask and paths whose characters include "," or
\* characters that are not letters.
FieldMaskRoundTrip ==
    \A v \in FieldMaskValues \cup PunctuatedMasks :
        (SerializedWkt("FieldMask", v) /\ encoded.ok /\ pc \in {"done", "back"}) =>
            outcome = Ok(v)


(***************************************************************************)
(* The conformance harness (prost-canonical-serde-conformance, main.rs):   *)
(* a loop that reads a frame from stdin, decodes it as a                   *)
(* ConformanceRequest, handles it and writes the ConformanceResponse as a  *)
(* frame to stdout.  A frame stands for what ConformanceRequest::decode    *)
(* makes of its bytes, and a protobuf payload for what T::decode makes of  *)
(* it; JSON payloads are the JSON they hold.  stdout accepts every write.  *)
(***************************************************************************)
\* conformance.proto: enum WireFormat, by number
WireFormat == <<"Unspecified", "Protobuf", "Json", "Jspb", "TextFormat">>

\* WireFormat::try_from(n).unwrap_or(WireFormat::Unspecified)
WireFormatOf(n) == IF n + 1 \in DOMAIN WireFormat THEN WireFormat[n + 1] ELSE "Unspecified"

\* conformance_request::Payload
ProtobufPayload(decoded) == [format |-> "protobuf", decoded |-> decoded, json |-> JNull]

JsonPayload(json) == [format |-> "json", decoded |-> None, json |-> json]

TextPayload == [format |-> "text", decoded |-> None, json |-> JNull]

JspbPayload == [format |-> "jspb", decoded |-> None, json |-> JNull]

ConformanceRequest(message_type, payload, requested_output_format) ==
    [message_type |-> message_type, payload |-> payload,
     requested_output_format |-> requested_output_format]

\* ConformanceResponse { result: Some(...) }
ConformanceResponse(result, message, payload) ==
    [result |-> result, message |-> message, payload |-> payload]

skipped(message) == ConformanceResponse("Skipped", message, None)

parse_error(message) == ConformanceResponse("ParseError", message, None)

serialize_error(message) == ConformanceResponse("SerializeError", message, None)

protobuf_response(payload) == ConformanceResponse("ProtobufPayload", "", Some(payload))

json_response(payload) == ConformanceResponse("JsonPayload", "", Some(payload))

\* FailureSet::default(), encoded
failure_list_response == protobuf_response("FailureSet")

\* The thread of main panics: the process ends and nothing is written.
HarnessPanic == ConformanceResponse("panic", Panicked.e, None)

\* The type T of handle_message::<T>
MessageKindOf(message_type) ==
    IF message_type = "protobuf_test_messages.proto2.TestAllTypesProto2"
    THEN KindMessage("TestAllTypesProto2")
    ELSE KindMessage("TestAllTypesProto3")

\* The first match of handle_message: the outcomes of decode_proto or of
\* parse_json on the payload.
parse_payload(kind, input_payload) ==
    IF input_payload.format = "protobuf" THEN {input_payload.decoded}
    ELSE IF input_payload.format = "json" THEN from_str(kind, input_payload.json)
    ELSE {Err("")}

\* to_json(&message)
to_json(kind, message) == serialize_value_expr(kind, message, FALSE)

\* handle_message::<T>, where the payload was read as `message`
handle_message(kind, input_payload, output_format, message) ==
    IF input_payload.format = "text" THEN skipped("text format input not supported")
    ELSE IF input_payload.format = "jspb" THEN skipped("jspb input not supported")
    ELSE IF ~message.ok
    THEN IF message.e = Panicked.e THEN HarnessPanic ELSE parse_error(message.e)
    ELSE CASE output_format = "Protobuf" -> protobuf_response(message.v)
           [] output_format = "Json" ->
                 IF to_json(kind, message.v).ok
                 THEN json_response(to_json(kind, message.v).v)
                 ELSE serialize_error(to_json(kind, message.v).e)
           [] output_format = "TextFormat" -> skipped("text format output not supported")
           [] output_format = "Jspb" -> skipped("jspb output not supported")
           [] OTHER -> skipped("unspecified output format")

\* handle_request(request): the responses it may return
handle_request(request) ==
    IF request.message_type = "conformance.FailureSet" THEN {failure_list_response}
    ELSE IF request.payload = None THEN {skipped("no payload provided")}
    ELSE IF request.message_type \notin {"protobuf_test_messages.proto2.TestAllTypesProto2",
                                         "protobuf_test_messages.proto3.TestAllTypesProto3"}
    THEN {skipped("unsupported message type")}
    ELSE {handle_message(MessageKindOf(request.message_type), request.payload[1],
                         WireFormatOf(request.requested_output_format), message) :
             message \in parse_payload(MessageKindOf(request.message_type), request.payload[1])}

\* The body of the loop of main for one frame: the responses it may compute
Responses(frame) ==
    IF frame.ok THEN handle_request(frame.v) ELSE {parse_error(frame.e)}

\* Inputs: the frames of the input, and how the input ends.
MaxFrames == 2

Proto2 == "protobuf_test_messages.proto2.TestAllTypesProto2"

Proto3 == "protobuf_test_messages.proto3.TestAllTypesProto3"

JsonGood == JObj(<<Entry(<<"o", "p", "t", "i", "o", "n", "a", "l", "I", "n", "t", "3", "2">>, JUInt(WOf(3)))>>)

JsonBad == JObj(<<Entry(<<"o", "p", "t", "i", "o", "n", "a", "l", "I", "n", "t", "3", "2">>, JStr(<<"a", "b", "c">>))>>)

JsonFloatMin == JObj(<<Entry(<<"o", "p", "t", "i", "o", "n", "a", "l", "F", "l", "o", "a", "t">>, JNInt(I64_MIN))>>)

ProtoGood == Ok(With(DefaultMessage("TestAllTypesProto3"), <<"o", "p", "t", "i", "o", "n", "a", "l", "_", "i", "n", "t", "3", "2">>, WOf(1)))

ProtoLongDuration ==
    Ok(With(DefaultMessage("TestAllTypesProto3"), <<"o", "p", "t", "i", "o", "n", "a", "l", "_", "d", "u", "r", "a", "t", "i", "o", "n">>,
            Some(Duration(I64_MAX, 0))))

HarnessFrames ==
    {Err("failed to decode Protobuf message")}
    \cup {Ok(r) : r \in
            {ConformanceRequest("conformance.FailureSet", Some(ProtobufPayload(Ok(<<>>))), 1),
             ConformanceRequest("conformance.FailureSet", Some(TextPayload), 4),
             ConformanceRequest(Proto3, Some(JsonPayload(JsonGood)), 2),
             ConformanceRequest(Proto3, Some(JsonPayload(JsonGood)), 1),
             ConformanceRequest(Proto3, Some(JsonPayload(JsonGood)), 4),
             ConformanceRequest(Proto3, Some(JsonPayload(JsonGood)), 7),
             ConformanceRequest(Proto3, Some(JsonPayload(JsonBad)), 2),
             ConformanceRequest(Proto3, Some(JsonPayload(JsonBad)), 3),
             ConformanceRequest(Proto3, Some(TextPayload), 2),
             ConformanceRequest(Proto3, Some(JspbPayload), 1),
             ConformanceRequest(Proto3, Some(ProtobufPayload(ProtoGood)), 2),
             ConformanceRequest(Proto3, Some(ProtobufPayload(ProtoLongDuration)), 2),
             ConformanceRequest(Proto3, Some(ProtobufPayload(Err("invalid wire type"))), 1),
             ConformanceRequest(Proto3, None, 2),
             ConformanceRequest("google.protobuf.Empty", Some(JsonPayload(JsonGood)), 2),
             ConformanceRequest(Proto2, Some(JsonPayload(JsonGood)), 2),
             ConformanceRequest(Proto2, Some(JsonPayload(JsonFloatMin)), 2)}}

\* The input ends at a frame boundary, inside a length prefix, or inside
\* the body of a frame.
Tails == {"boundary", "length", "body"}

HarnessInit ==
    /\ pc = "read"
    /\ vkind = None
    /\ hasher = FALSE
    /\ original = None
    /\ encoded = None
    /\ outcome = None
    /\ response = None
    /\ nread = 0
    /\ stdout = <<>>
    /\ \E n \in 0..MaxFrames :
          \E frames \in [1..n -> HarnessFrames] :
             \E tail \in Tails : stdin = [frames |-> frames, tail |-> tail]

\* read_frame() returns Ok(Some(frame)).
ReadFrame ==
    /\ pc = "read"
    /\ nread < Len(stdin.frames)
    /\ nread' = nread + 1
    /\ pc' = "frame"
    /\ UNCHANGED <<vkind, hasher, original, encoded, outcome, response, stdin, stdout>>

\* read_frame() meets the end of the input: where the length prefix should
\* begin or inside it, it returns Ok(None) and main returns Ok(()); inside
\* the body of a frame, read_exact fails and main returns the error.
EndOfInput ==
    /\ pc = "read"
    /\ nread = Len(stdin.frames)
    /\ pc' = IF stdin.tail = "body" THEN "failed" ELSE "exit"
    /\ UNCHANGED <<vkind, hasher, original, encoded, outcome, response, stdin, nread, stdout>>

\* ConformanceRequest::decode(&frame[..]), then parse_error or
\* handle_request; a panic ends the process.
HandleFrame ==
    /\ pc = "frame"
    /\ \E r \in Responses(stdin.frames[nread]) :
          IF r.result = "panic"
          THEN pc' = "panicked" /\ UNCHANGED response
          ELSE pc' = "write" /\ response' = r
    /\ UNCHANGED <<vkind, hasher, original, encoded, outcome, stdin, nread, stdout>>

\* write_frame(&response), and the loop goes on to read
WriteFrame ==
    /\ pc = "write"
    /\ stdout' = Append(stdout, response)
    /\ response' = None
    /\ pc' = "read"
    /\ UNCHANGED <<vkind, hasher, original, encoded, outcome, stdin, nread>>

HarnessNext == ReadFrame \/ EndOfInput \/ HandleFrame \/ WriteFrame

HarnessSpec == HarnessInit /\ [][HarnessNext]_vars


(***************************************************************************)
(* Properties of the conformance harness (under HarnessSpec).              *)
(***************************************************************************)
\* The request asks for a text or jspb payload or output format.
TextOrJspb(request) ==
    \/ /\ request.payload # None
       /\ request.payload[1].format \in {"text", "jspb"}
    \/ WireFormatOf(request.requested_output_format) \in {"TextFormat", "Jspb"}

\* The response that the claim gives a frame, where it gives one.
AnsweredAsStated(frame, r) ==
    /\ ~frame.ok => r.result = "ParseError"
    /\ frame.ok /\ TextOrJspb(frame.v) => r.result = "Skipped"

\* C30: the harness loop answers every request frame with exactly one
\* response frame, written before the next frame is read, so that the
\* responses are in the order of the requests: while a frame is handled all
\* earlier frames and no others have their response on stdout, and when the
\* process has ended every frame read has one; a frame that does not decode
\* has a ParseError response, and a request with a text or jspb payload or
\* output format has a Skipped response; the loop ends only at the end of
\* the input, and nothing is written after it.
HarnessAnswers ==
    /\ pc \in {"frame", "write"} => Len(stdout) = nread - 1
    /\ pc \in {"read", "exit", "failed", "panicked"} => Len(stdout) = nread
    /\ pc \in {"exit", "failed"} => nread = Len(stdin.frames)
    /\ \A i \in 1..Len(stdout) :
          /\ stdout[i].result \in {r.result : r \in Responses(stdin.frames[i])}
          /\ AnsweredAsStated(stdin.frames[i], stdout[i])

=============================================================================
